---- MODULE Spec2Model ----
(***************************************************************************)
(* Verification model of run-qemu-vm's interactive text console:           *)
(*   - PytePreprocessor (run_qemu_vm/pyte_preprocessor.py), the stateful   *)
(*     CSI filter, specification SpecFilter;                               *)
(*   - ACSTranslator (run_qemu_vm/acs_translator.py), the DEC Special       *)
(*     Graphics translator, specification SpecAcs;                         *)
(*   - the prompt_toolkit console session (run_qemu_vm/console.py): the    *)
(*     control menu, the PTY read callback, the monitor read loop, the     *)
(*     log merger and the teardown, specification Spec; its keys,          *)
(*     SpecKeys; its screens and the host terminal's size, SpecScreen; its *)
(*     cursor position requests, SpecQueries; everything that happens      *)
(*     while it runs, SpecMode; its monitor socket, SpecSocket; the        *)
(*     termios attributes of stdin, SpecTermios;                           *)
(*   - the launcher (run_qemu_vm/process.py), specification SpecSetup.     *)
(* Bytes are integers 0..255, byte strings are sequences of them.          *)
(***************************************************************************)
EXTENDS Integers, Sequences, FiniteSets, TLC

VARIABLES
    \* ---- PytePreprocessor and the harness that feeds it ----
    pp_state,        \* self._state
    pp_buffer,       \* self._buffer
    screen_lines,    \* self._screen.lines
    screen_columns,  \* self._screen.columns
    pending,         \* input bytes not yet passed to filter()
    fed,             \* input bytes passed to filter() so far
    outs,            \* concatenation of the values filter() returned so far
    shape,           \* how the input was built: its kind and its parts
    calls,           \* number of filter() / translate() calls made: 0, 1, or 2 for two or more
    \* ---- ACSTranslator (fed by the same harness) ----
    acs_state,       \* self._state
    acs_buffer,      \* self._buffer
    \* ---- console session ----
    phase,           \* "running" | "exiting" (app.exit called / run_async raised) | "done"
    app_result,      \* result given to app.exit, "exception", or "none"
    current_mode,    \* current_mode[0]
    menu_visible,    \* menu_state.is_visible
    menu_result,     \* menu_state.result ("none" for None)
    reader,          \* TRUE iff the PTY read callback is registered with the loop
    proc_pc,         \* position of the _menu_result_processor task
    monitor_sock,    \* TRUE iff _connect_to_monitor returned a socket
    mon_pc,          \* position of the _read_from_monitor task
    log_queue,       \* log_queue
    log_buffer,      \* log_buffer.document.text, as the list of appended chunks
    qemu,            \* [state, returncode, killed, got_quit] of the child process
    pty_fd_closes,   \* number of os.close(pty_fd) calls
    sock_closes,     \* number of monitor_sock.close() calls
    return_code,     \* <<value returned by run_prompt_toolkit_console>>, <<>> before
    hist,            \* history of the run (what the claims speak about)
    \* ---- host terminal, launcher and screens ----
    tty,             \* termios flags of stdin, the saved attributes, the position
    setup,           \* run_qemu: position, reader thread, event, holder, child, exit code
    host,            \* [rows, cols] that TIOCGWINSZ on stdout returns, and how often it changed
    winsize,         \* [rows, cols] last set on the PTY with TIOCSWINSZ
    mon_screen,      \* [lines, columns] of monitor_pyte_screen
    emu_stale,       \* TRUE iff PTY data was fed to a guest screen of another size than the host's
    pty_replies,     \* what the guest screen wrote back to the PTY (write_process_input)
    out_queue,       \* number of QEMU stdout lines in qemu_output_queue
    mon_conn         \* QEMU's monitor socket and _connect_to_monitor: [socket, attempts, pc]

ioVars == <<pp_state, pp_buffer, screen_lines, screen_columns, pending, fed, outs,
           shape, calls, acs_state, acs_buffer>>
envVars == <<tty, setup, host, winsize, mon_screen, emu_stale, pty_replies, out_queue,
            mon_conn>>
\* everything but the console session's own state
ppVars == <<ioVars, envVars>>
conVars == <<phase, app_result, current_mode, menu_visible, menu_result, reader,
             proc_pc, monitor_sock, mon_pc, log_queue, log_buffer, qemu,
             pty_fd_closes, sock_closes, return_code, hist>>
vars == <<ppVars, conVars>>

(***************************************************************************)
(* Bounds of the model.                                                    *)
(***************************************************************************)
\* longest plain-text run put before / after an escape sequence
MaxPlain == 1
\* short CSI sequences carry 0..MaxShortParams parameter bytes
MaxShortParams == 2
\* long CSI sequences reach MAX_BUFFER_SIZE + 1 + MaxOver bytes
MaxOver == 2
\* value at which the model's int() saturates (above every screen size)
IntCap == 100000
\* numbers of more significant digits than this are at least IntCap
IntCapDigits == 6
\* how often the control menu is opened in a session
MaxVisits == 2
\* how many PTY reads and monitor reads that return bytes a session makes
MaxReads == 2
MaxMonReads == 1
\* free byte strings fed to the preprocessor have 0..MaxBytes bytes
MaxBytes == 4
\* ACS runs ESC ( 0 t ESC ( B have 0..MaxAcsRun table keys in t
MaxAcsRun == 2
\* translator inputs are built of 0..MaxAcsTokens pieces
MaxAcsTokens == 3

(***************************************************************************)
(* PytePreprocessor                                                        *)
(***************************************************************************)
STATE_NORMAL == 0
STATE_ESC_SEEN == 1
STATE_CSI_STARTED == 2
STATE_CSI_INTERMEDIATE == 3

MAX_BUFFER_SIZE == 64

ESC == 27
LBRACKET == 91
FINAL_H == 72
SEMICOLON == 59
DIGIT_0 == 48
DIGIT_9 == 57

is_csi_final_byte(byte) == 64 <= byte /\ byte <= 126
\* mutant: the space (0x20) is not taken for an intermediate byte
is_csi_intermediate_byte_no_space(byte) == 33 <= byte /\ byte <= 47
is_csi_intermediate_byte(byte) == 32 <= byte /\ byte <= 47
\* mutant: every byte up to 0x3f is taken for a parameter byte
is_csi_parameter_byte_no_lower_bound(byte) == byte <= 63
is_csi_parameter_byte(byte) == 48 <= byte /\ byte <= 63

IsDigit(byte) == DIGIT_0 <= byte /\ byte <= DIGIT_9

\* index of the first ';' of s, 0 when there is none
FirstSemicolon(s) ==
    LET at == {i \in 1..Len(s) : s[i] = SEMICOLON}
    IN IF at = {} THEN 0 ELSE CHOOSE i \in at : \A j \in at : i <= j

CountSemicolons(s) == Cardinality({i \in 1..Len(s) : s[i] = SEMICOLON})

\* the number spelt by the digits s[i..Len(s)], at most IntCapDigits of them
RECURSIVE DigitsValue(_, _, _)
DigitsValue(s, i, acc) ==
    IF i > Len(s) THEN acc
    ELSE DigitsValue(s, i + 1, acc * 10 + (s[i] - DIGIT_0))

\* Python's int() on a non-empty ASCII string of parameter bytes: ok is FALSE
\* where int() raises ValueError (a byte that is no digit). Python's integers are
\* unbounded; here a number of more than IntCapDigits significant digits, or above
\* IntCap, is given as IntCap, which no comparison with a screen dimension can
\* tell from the exact value.
PyInt(s) ==
    IF s = <<>> \/ \E i \in 1..Len(s) : ~IsDigit(s[i])
    THEN [ok |-> FALSE, val |-> 0]
    ELSE LET nz == {i \in 1..Len(s) : s[i] # DIGIT_0}
             first == IF nz = {} THEN Len(s) + 1 ELSE CHOOSE i \in nz : \A j \in nz : i <= j
             v == IF Len(s) - first + 1 > IntCapDigits THEN IntCap
                  ELSE DigitsValue(s, first, 0)
         IN [ok |-> TRUE, val |-> IF v > IntCap THEN IntCap ELSE v]

\* _parse_cursor_position: [ok |-> FALSE, ...] stands for None
parse_cursor_position(params_bytes) ==
    LET n == Len(params_bytes)
        k == FirstSemicolon(params_bytes)
        none == [ok |-> FALSE, row |-> 0, col |-> 0]
        pos(r, c) == [ok |-> TRUE, row |-> r, col |-> c]
    IN IF k > 0
       THEN IF CountSemicolons(params_bytes) = 1
            THEN LET p0 == SubSeq(params_bytes, 1, k - 1)
                     p1 == SubSeq(params_bytes, k + 1, n)
                     r == IF p0 = <<>> THEN [ok |-> TRUE, val |-> 1] ELSE PyInt(p0)
                     c == IF p1 = <<>> THEN [ok |-> TRUE, val |-> 1] ELSE PyInt(p1)
                 IN IF ~r.ok THEN none
                    ELSE IF ~c.ok THEN none
                    ELSE pos(r.val, c.val)
            ELSE pos(1, 1)
       ELSE IF n > 0
            THEN LET r == PyInt(params_bytes)
                 IN IF r.ok THEN pos(r.val, 1) ELSE none
            ELSE pos(1, 1)

\* mutant: a coordinate equal to the screen dimension is filtered too
should_filter_cursor_position_ge(params_bytes, max_rows, max_cols) ==
    LET pos == parse_cursor_position(params_bytes)
    IN IF ~pos.ok THEN FALSE
       ELSE pos.row >= max_rows \/ pos.col >= max_cols

should_filter_cursor_position(params_bytes, max_rows, max_cols) ==
    LET pos == parse_cursor_position(params_bytes)
    IN IF ~pos.ok THEN FALSE
       ELSE pos.row > max_rows \/ pos.col > max_cols

\* mutant: a reset also discards what the call has output so far
reset_state_drops_output(output) == [state |-> STATE_NORMAL, buffer |-> <<>>, output |-> <<>>]
\* _reset_state, keeping the call's output
reset_state(output) == [state |-> STATE_NORMAL, buffer |-> <<>>, output |-> output]

\* the "Check buffer overflow" step that ends every iteration of filter's loop
\* mutant: the buffer is never checked
check_overflow_never(s) == s
check_overflow(s) ==
    IF Len(s.buffer) > MAX_BUFFER_SIZE THEN reset_state(s.output) ELSE s

\* one iteration of the loop `for byte in data` of filter
filter_byte(s, byte, max_rows, max_cols) ==
    LET buf == Append(s.buffer, byte)
        emit == reset_state(s.output \o buf)
        drop == reset_state(s.output)
        keep(st) == [state |-> st, buffer |-> buf, output |-> s.output]
        r == CASE s.state = STATE_NORMAL ->
                      IF byte = ESC THEN keep(STATE_ESC_SEEN)
                      ELSE [s EXCEPT !.output = Append(@, byte)]
               [] s.state = STATE_ESC_SEEN ->
                      IF byte = LBRACKET THEN keep(STATE_CSI_STARTED) ELSE emit
               [] s.state = STATE_CSI_STARTED ->
                      IF is_csi_intermediate_byte(byte) THEN keep(STATE_CSI_INTERMEDIATE)
                      ELSE IF is_csi_parameter_byte(byte) THEN keep(STATE_CSI_STARTED)
                      ELSE IF is_csi_final_byte(byte)
                           THEN IF byte = FINAL_H
                                THEN IF should_filter_cursor_position(
                                            SubSeq(buf, 3, Len(buf) - 1), max_rows, max_cols)
                                     THEN drop
                                     ELSE emit
                                ELSE emit
                      ELSE emit
               [] OTHER ->
                      IF is_csi_final_byte(byte) THEN drop
                      ELSE IF is_csi_intermediate_byte(byte) THEN keep(STATE_CSI_INTERMEDIATE)
                      ELSE IF is_csi_parameter_byte(byte) THEN keep(STATE_CSI_INTERMEDIATE)
                      ELSE drop
    IN check_overflow(r)

\* the loop `for byte in data` of filter over data[lo..hi], in order: the first
\* half is run to its end, and the second half starts from the state it left
\* (the set comprehension makes TLC compute `half` once, before it goes on)
RECURSIVE filter_loop(_, _, _, _, _, _)
filter_loop(s, data, lo, hi, max_rows, max_cols) ==
    IF lo > hi THEN s
    ELSE IF lo = hi THEN filter_byte(s, data[lo], max_rows, max_cols)
    ELSE LET mid == (lo + hi) \div 2
         IN CHOOSE r \in {filter_loop(half, data, mid + 1, hi, max_rows, max_cols) :
                            half \in {filter_loop(s, data, lo, mid, max_rows, max_cols)}} : TRUE

\* mutant: every call starts in the Normal state with an empty buffer
filter_from_reset(st, buf, data, max_rows, max_cols) ==
    filter_loop([state |-> STATE_NORMAL, buffer |-> <<>>, output |-> <<>>], data, 1, Len(data),
                max_rows, max_cols)
\* mutant: the loop starts at the second byte of data
filter_from_second_byte(st, buf, data, max_rows, max_cols) ==
    filter_loop([state |-> st, buffer |-> buf, output |-> <<>>], data, 2, Len(data),
                max_rows, max_cols)

\* mutant: the buffer is local to a call, the state is kept
filter_buffer_per_call(st, buf, data, max_rows, max_cols) ==
    filter_loop([state |-> st, buffer |-> <<>>, output |-> <<>>], data, 1, Len(data),
                max_rows, max_cols)

\* PytePreprocessor.filter(data) from state st and buffer buf:
\* the new state and buffer and the bytes returned
filter(st, buf, data, max_rows, max_cols) ==
    filter_loop([state |-> st, buffer |-> buf, output |-> <<>>], data, 1, Len(data),
                max_rows, max_cols)

(***************************************************************************)
(* Inputs of the preprocessor runs.                                        *)
(***************************************************************************)
Rep(byte, n) == [i \in 1..n |-> byte]

\* byte strings over S of length 0..n
RECURSIVE SeqsUpTo(_, _)
SeqsUpTo(S, n) ==
    IF n = 0 THEN {<<>>}
    ELSE LET shorter == SeqsUpTo(S, n - 1)
         IN shorter \cup {Append(s, b) : s \in shorter, b \in S}

\* the decimal ASCII form of n >= 0
RECURSIVE Dec(_)
Dec(n) == IF n < 10 THEN <<DIGIT_0 + n>> ELSE Append(Dec(n \div 10), DIGIT_0 + (n % 10))

PlainBefore == {Rep(97, n) : n \in 0..MaxPlain}
PlainAfter == {Rep(98, n) : n \in 0..MaxPlain}

\* CSI sequences with at least one intermediate byte: ESC [ params intermediates final
ShortParams == SeqsUpTo({49, SEMICOLON}, MaxShortParams)
LongParams == {Rep(49, MAX_BUFFER_SIZE - 3 + d) : d \in 0..MaxOver}
Intermediates == {<<33>>, <<32>>, <<32, 33>>}
Finals == {112, FINAL_H}
CsiIntermediateSeqs ==
    {<<ESC, LBRACKET>> \o p \o m \o <<f>> : p \in ShortParams, m \in Intermediates, f \in Finals}
\* the long ones: 65 bytes (the longest the buffer takes) up to 65 + MaxOver bytes
LongCsiIntermediateSeqs ==
    {<<ESC, LBRACKET>> \o p \o <<33>> \o <<112>> : p \in LongParams}

\* cursor positions ESC [ row ; col H: a coordinate is [val, digits], val being the
\* number the digits spell (IntCap for a number of IntCap or more)
Coords == {0, 1, 2, 3, 4, 24, 25, 80, 81, 1000}
ShortCoords == {[val |-> n, digits |-> Dec(n)] : n \in Coords}
LongCoords == {[val |-> IntCap, digits |-> Rep(DIGIT_9, MAX_BUFFER_SIZE - 4 + d)] : d \in 0..MaxOver}
CursorSeq(row, col) == <<ESC, LBRACKET>> \o row.digits \o <<SEMICOLON>> \o col.digits \o <<FINAL_H>>
ScreenLines == {2, 24}
ScreenColumns == {3, 80}

CsiShapes ==
    {[kind |-> "csi_int", pre |-> a, seq |-> q, post |-> b, row |-> 0, col |-> 0] :
        a \in PlainBefore, q \in CsiIntermediateSeqs, b \in PlainAfter}
    \cup {[kind |-> "csi_int", pre |-> Rep(97, MaxPlain), seq |-> q, post |-> Rep(98, MaxPlain),
            row |-> 0, col |-> 0] : q \in LongCsiIntermediateSeqs}
CursorShape(r, c) ==
    [kind |-> "cup", pre |-> <<>>, seq |-> CursorSeq(r, c), post |-> <<>>,
     row |-> r.val, col |-> c.val]
CursorShapes == {CursorShape(r, c) : r \in ShortCoords, c \in ShortCoords}
LongCursorShapes == {CursorShape(r, [val |-> 1, digits |-> Dec(1)]) : r \in LongCoords}

\* free byte strings: ESC, '[' (also a final byte), a parameter byte '1', an
\* intermediate byte '!' and a line feed, which is none of these
ByteAlphabet == {ESC, LBRACKET, 49, 33, 10}
ByteShapes ==
    {[kind |-> "bytes", pre |-> <<>>, seq |-> s, post |-> <<>>, row |-> 0, col |-> 0] :
        s \in SeqsUpTo(ByteAlphabet, MaxBytes)}

(***************************************************************************)
(* ACSTranslator                                                           *)
(***************************************************************************)
\* AcsState
NORMAL == "NORMAL"
ACS_MODE == "ACS_MODE"

\* ESC ( 0 and ESC ( B
ACS_ENTER_SEQ == <<ESC, 40, 48>>
ACS_EXIT_SEQ == <<ESC, 40, 66>>

\* self._acs_map: byte -> Unicode code point
acs_map ==
    95 :> 160 @@ 96 :> 9670 @@ 97 :> 9618 @@ 98 :> 9225 @@ 99 :> 9228 @@ 100 :> 9229 @@
    101 :> 9226 @@ 102 :> 176 @@ 103 :> 177 @@ 104 :> 9252 @@ 105 :> 9227 @@ 106 :> 9496 @@
    107 :> 9488 @@ 108 :> 9484 @@ 109 :> 9492 @@ 110 :> 9532 @@ 111 :> 9146 @@ 112 :> 9147 @@
    113 :> 9472 @@ 114 :> 9148 @@ 115 :> 9149 @@ 116 :> 9500 @@ 117 :> 9508 @@ 118 :> 9524 @@
    119 :> 9516 @@ 120 :> 9474 @@ 121 :> 8804 @@ 122 :> 8805 @@ 123 :> 960 @@ 124 :> 8800 @@
    125 :> 163 @@ 126 :> 183

\* str.encode('utf-8') of one character of the Basic Multilingual Plane
utf8_encode(cp) ==
    IF cp < 128 THEN <<cp>>
    ELSE IF cp < 2048 THEN <<192 + (cp \div 64), 128 + (cp % 64)>>
    ELSE <<224 + (cp \div 4096), 128 + ((cp \div 64) % 64), 128 + (cp % 64)>>

\* the Python slice data[i:j] for the 1-based first index i and last index j
Slice(data, i, j) == SubSeq(data, i, IF j > Len(data) THEN Len(data) ELSE j)

\* data[i:i+2] == self._ACS_ENTER_SEQ[:2]: ESC and one more byte end the chunk
\* mutant: an ESC ( at the end of a chunk is not held back
partial_acs_sequence_never(two) == FALSE
\* mutant: ESC and any one byte at the end of a chunk are held back
partial_acs_sequence_any(two) == Len(two) = 2
partial_acs_sequence(two) == two = SubSeq(ACS_ENTER_SEQ, 1, 2)

\* the state after a full ESC ( 0
\* mutant: ESC ( 0 toggles the mode
state_after_enter_toggle(state) == IF state = ACS_MODE THEN NORMAL ELSE ACS_MODE
state_after_enter(state) == ACS_MODE

\* what one byte outside a mode-switch sequence adds to the output
\* mutant: the table is applied whatever the mode
translate_char_any_mode(state, char_byte) ==
    IF char_byte \in DOMAIN acs_map THEN utf8_encode(acs_map[char_byte]) ELSE <<char_byte>>
\* mutant: the table is never applied
translate_char_never(state, char_byte) == <<char_byte>>
translate_char(state, char_byte) ==
    IF state = ACS_MODE
    THEN IF char_byte \in DOMAIN acs_map THEN utf8_encode(acs_map[char_byte])
         ELSE <<char_byte>>
    ELSE <<char_byte>>

\* the loop `while i < n` of translate from index i (1-based) on;
\* s is [state, buffer, output]
RECURSIVE translate_loop(_, _, _)
translate_loop(s, data, i) ==
    LET n == Len(data)
    IN IF i > n THEN s
       ELSE IF data[i] = ESC /\ i >= n
            THEN [s EXCEPT !.buffer = Slice(data, i, n)]
       ELSE IF data[i] = ESC /\ i + 1 >= n /\ partial_acs_sequence(Slice(data, i, i + 1))
            THEN [s EXCEPT !.buffer = Slice(data, i, n)]
       ELSE IF Slice(data, i, i + 2) = ACS_ENTER_SEQ
            THEN translate_loop([s EXCEPT !.state = state_after_enter(s.state)], data, i + 3)
       ELSE IF Slice(data, i, i + 2) = ACS_EXIT_SEQ
            THEN translate_loop([s EXCEPT !.state = NORMAL], data, i + 3)
       ELSE translate_loop([s EXCEPT !.output = @ \o translate_char(s.state, data[i])],
                           data, i + 1)

\* mutant: the carry buffer is not prepended to the data
translate_without_carry(state, buffer, data) ==
    IF data = <<>> THEN [state |-> state, buffer |-> <<>>, output |-> <<>>]
    ELSE translate_loop([state |-> state, buffer |-> <<>>, output |-> <<>>], data, 1)

\* ACSTranslator.translate(data) from the given state and buffer: the new state
\* and buffer and the bytes returned (nothing in the loop raises, so the except
\* clause is never taken)
translate(state, buffer, data) ==
    LET all == buffer \o data
    IN IF all = <<>> THEN [state |-> state, buffer |-> <<>>, output |-> <<>>]
       ELSE translate_loop([state |-> state, buffer |-> <<>>, output |-> <<>>], all, 1)

(***************************************************************************)
(* Inputs of the translator runs.                                          *)
(***************************************************************************)
\* keys of the table with a two-byte and with a three-byte translation
AcsKeySample == {95, 113, 123, 126}
AcsRuns == SeqsUpTo(AcsKeySample, MaxAcsRun)

\* pieces byte strings are built of: the two sequences, a table key, a byte
\* outside the table, and the bytes partial sequences are made of
AcsTokens == {ACS_ENTER_SEQ, ACS_EXIT_SEQ, <<113>>, <<65>>, <<ESC>>, <<40>>}
RECURSIVE TokenSeqs(_)
TokenSeqs(n) ==
    IF n = 0 THEN {<<>>}
    ELSE LET shorter == TokenSeqs(n - 1)
         IN shorter \cup {s \o t : s \in shorter, t \in AcsTokens}

AcsRunShapes ==
    {[kind |-> "acs_run", pre |-> ACS_ENTER_SEQ, seq |-> t, post |-> ACS_EXIT_SEQ,
      row |-> 0, col |-> 0] : t \in AcsRuns}
AcsByteShapes ==
    {[kind |-> "acs_bytes", pre |-> <<>>, seq |-> s, post |-> <<>>, row |-> 0, col |-> 0] :
        s \in TokenSeqs(MaxAcsTokens)}

(***************************************************************************)
(* Console session (console.py).                                           *)
(* One action is one callback or one stretch of a coroutine between two    *)
(* awaits, as the asyncio event loop runs them: never interleaved.         *)
(***************************************************************************)
MODE_SERIAL_CONSOLE == "serial_console"
MODE_QEMU_MONITOR == "qemu_monitor"

\* signal sent by qemu_process.kill(); Popen.returncode is then -SIGKILL
SIGKILL == 9
\* exit statuses of a child that exits by itself
ExitCodes == {0, 1}

\* stdin's termios attributes, which nothing has touched
TtyIdle ==
    tty = [flags |-> {}, original |-> <<>>, saved |-> <<>>, pc |-> "idle", path |-> "none"]

\* run_qemu has handed over to the console: the reader thread has read the line
\* that names the PTY
SetupIdle ==
    setup = [pc |-> "console", thread |-> "reading", event |-> TRUE, holder |-> TRUE,
             child |-> "running", lines |-> 1, pty_exists |-> TRUE, path |-> "session",
             exit_code |-> <<>>]

\* a 24x80 host terminal, both screens and the PTY of that size, nothing fed, the
\* line that names the PTY in the output queue
ScreenIdle ==
    /\ host = [rows |-> 24, cols |-> 80, resizes |-> 0]
    /\ winsize = [rows |-> 24, cols |-> 80]
    /\ mon_screen = [lines |-> 24, columns |-> 80]
    /\ emu_stale = FALSE
    /\ pty_replies = <<>>
    /\ out_queue = 1

\* _connect_to_monitor has made its one attempt and returned
ConnIdle == mon_conn = [socket |-> "listening", attempts |-> 1, pc |-> "returned"]

EnvIdle ==
    /\ TtyIdle
    /\ SetupIdle
    /\ ScreenIdle
    /\ ConnIdle

\* nothing read from the PTY yet; the filter and the translator in their initial states
IoIdle ==
    /\ pp_state = STATE_NORMAL
    /\ pp_buffer = <<>>
    /\ screen_lines = 24
    /\ screen_columns = 80
    /\ pending = <<>>
    /\ fed = <<>>
    /\ outs = <<>>
    /\ shape = [kind |-> "none", pre |-> <<>>, seq |-> <<>>, post |-> <<>>, row |-> 0, col |-> 0]
    /\ calls = 0
    /\ acs_state = "NORMAL"
    /\ acs_buffer = <<>>

\* the session's state when it starts, but for the position, the PTY reader and the
\* monitor socket
SessionIdle ==
    /\ app_result = "none"
    /\ current_mode = MODE_SERIAL_CONSOLE
    /\ menu_visible = FALSE
    /\ menu_result = "none"
    /\ proc_pc = "sleep"
    /\ log_queue = <<>>
    /\ log_buffer = <<>>
    /\ qemu = [state |-> "running", returncode |-> <<>>, killed |-> FALSE, got_quit |-> FALSE]
    /\ pty_fd_closes = 0
    /\ sock_closes = 0
    /\ return_code = <<>>
    /\ hist = [visits |-> 0, mode_at_open |-> MODE_SERIAL_CONSOLE, selections |-> <<>>,
               executed |-> <<>>, pty_reads |-> 0, mon_reads |-> 0, fed_chunks |-> 0,
               eof |-> FALSE, reads_after_eof |-> 0, reads_in_menu |-> 0, pty_crash |-> FALSE,
               mon_crash |-> FALSE, reader_at_close |-> <<>>,
               key |-> [data |-> <<>>, in_menu |-> FALSE, mode |-> MODE_SERIAL_CONSOLE,
                        sock_open |-> FALSE, failed |-> FALSE, pty |-> <<>>, sock |-> <<>>]]

\* the state after _initialize_console_state, _open_pty_device, _create_async_tasks
\* and the first loop.add_reader, but for the monitor socket
ConsoleIdle ==
    /\ phase = "running"
    /\ reader = TRUE
    /\ SessionIdle

\* run_prompt_toolkit_console up to the call of _manage_console_session;
\* _connect_to_monitor returns a socket or None
Init ==
    /\ ConsoleIdle
    /\ EnvIdle
    /\ monitor_sock \in BOOLEAN
    /\ mon_pc = IF monitor_sock THEN "recv" ELSE "done"
    /\ pp_state = STATE_NORMAL
    /\ pp_buffer = <<>>
    /\ screen_lines = 24
    /\ screen_columns = 80
    /\ pending = <<>>
    /\ fed = <<>>
    /\ outs = <<>>
    /\ shape = [kind |-> "none", pre |-> <<>>, seq |-> <<>>, post |-> <<>>, row |-> 0, col |-> 0]
    /\ calls = 0
    /\ acs_state = "NORMAL"
    /\ acs_buffer = <<>>

\* app.exit(result=...): sets the application's result, which ends run_async; it
\* raises when the application has a result already (the callers catch that)
AppExit(result) ==
    IF phase = "running"
    THEN phase' = "exiting" /\ app_result' = result
    ELSE UNCHANGED <<phase, app_result>>

\* the event loop runs callbacks and tasks until the finally clause of
\* _manage_console_session has cancelled the tasks
LoopAlive == phase \in {"running", "exiting"}

\* ---- key bindings (_create_key_bindings); prompt_toolkit runs no key binding
\* ---- once the application has a result
\* loop.remove_reader(pty_fd) of _show_control_menu
\* mutant: the menu is shown without pausing the PTY reader
show_menu_reader_kept(r) == r
show_menu_reader(r) == FALSE

\* show_menu: Ctrl-] while the menu is hidden, _show_control_menu
show_menu ==
    /\ UNCHANGED ppVars
    /\ phase = "running"
    /\ ~menu_visible
    /\ hist.visits < MaxVisits
    /\ reader' = show_menu_reader(reader)
    /\ menu_visible' = TRUE
    /\ menu_result' = "none"
    /\ hist' = [hist EXCEPT !.visits = @ + 1, !.mode_at_open = current_mode]
    /\ UNCHANGED <<phase, app_result, current_mode, proc_pc, monitor_sock, mon_pc,
                   log_queue, log_buffer, qemu, pty_fd_closes, sock_closes, return_code>>

\* a menu key: menu_state.result = action, then _hide_control_menu
MenuKey(action) ==
    /\ UNCHANGED ppVars
    /\ phase = "running"
    /\ menu_visible
    /\ menu_result' = action
    /\ menu_visible' = FALSE
    /\ hist' = [hist EXCEPT !.selections = Append(@, action)]
    /\ UNCHANGED <<phase, app_result, current_mode, reader, proc_pc, monitor_sock, mon_pc,
                   log_queue, log_buffer, qemu, pty_fd_closes, sock_closes, return_code>>

\* 'r' / 'R'
menu_resume ==
    /\ MenuKey("resume")
\* 'e' / 'E'
menu_monitor ==
    /\ MenuKey("monitor")
\* 'q' / 'Q'
menu_quit ==
    /\ MenuKey("quit")

\* ---- keys that are not menu keys
\* event.data of the keys Ctrl-C and Ctrl-]
KEY_CTRL_C == 3
KEY_CTRL_RBRACKET == 29
\* the keys pressed in the model: Ctrl-C, Ctrl-], 'a', 'r' and a non-ASCII letter
Keys == {KEY_CTRL_C, KEY_CTRL_RBRACKET, 97, 114, 233}

\* the handler prompt_toolkit runs for a key, given menu_state.is_visible:
\* the bindings of _create_key_bindings with their filters
\* mutant: the <any> binding has no menu_not_active filter
key_binding_any_unfiltered(key, visible) ==
    IF key = KEY_CTRL_RBRACKET /\ ~visible THEN "show_menu"
    ELSE IF key \in {114, 82} /\ visible THEN "menu_resume"
    ELSE IF key \in {101, 69} /\ visible THEN "menu_monitor"
    ELSE IF key \in {113, 81} /\ visible THEN "menu_quit"
    ELSE IF key = KEY_CTRL_C /\ ~visible THEN "forward_ctrl_c"
    ELSE "forward_any"
key_binding(key, visible) ==
    IF key = KEY_CTRL_RBRACKET /\ ~visible THEN "show_menu"
    ELSE IF key \in {114, 82} /\ visible THEN "menu_resume"
    ELSE IF key \in {101, 69} /\ visible THEN "menu_monitor"
    ELSE IF key \in {113, 81} /\ visible THEN "menu_quit"
    ELSE IF key = KEY_CTRL_C /\ ~visible THEN "forward_ctrl_c"
    ELSE IF ~visible THEN "forward_any"
    ELSE "none"

\* event.data.encode("utf-8", errors="replace"): a lone surrogate becomes '?'
RECURSIVE encode_utf8_replace(_)
encode_utf8_replace(data) ==
    IF data = <<>> THEN <<>>
    ELSE (IF 55296 <= Head(data) /\ Head(data) <= 57343 THEN <<63>>
          ELSE utf8_encode(Head(data))) \o encode_utf8_replace(Tail(data))

\* the branch _forward_input takes: os.write to the PTY, sock_sendall to the
\* monitor socket, or neither
\* mutant: the monitor branch does not ask whether there is a socket
forward_target_sock_unchecked(mode, sock) ==
    IF mode = MODE_SERIAL_CONSOLE THEN "pty" ELSE "sock"
\* mutant: the input always goes to the PTY
forward_target_always_pty(mode, sock) == "pty"
forward_target(mode, sock) ==
    IF mode = MODE_SERIAL_CONSOLE THEN "pty"
    ELSE IF mode = MODE_QEMU_MONITOR /\ sock THEN "sock"
    ELSE "none"

\* the last key event that was no menu key and did not open the menu: what was
\* pressed, where, and what was written
KeyEvent(key, failed, pty, sock) ==
    [data |-> <<key>>, in_menu |-> menu_visible, mode |-> current_mode,
     sock_open |-> monitor_sock, failed |-> failed, pty |-> pty, sock |-> sock]

\* forward_ctrl_c / forward_any: _forward_input; the write succeeds or raises
\* OSError, which is caught
forward_input ==
    /\ UNCHANGED ppVars
    /\ phase = "running"
    /\ \E key \in Keys, failed \in BOOLEAN :
        LET target == forward_target(current_mode, monitor_sock)
            bytes == encode_utf8_replace(<<key>>)
        IN /\ key_binding(key, menu_visible) \in {"forward_ctrl_c", "forward_any"}
           /\ hist' = [hist EXCEPT !.key =
                          KeyEvent(key, failed,
                                   IF target = "pty" /\ ~failed THEN bytes ELSE <<>>,
                                   IF target = "sock" /\ ~failed THEN bytes ELSE <<>>)]
    /\ UNCHANGED <<phase, app_result, current_mode, menu_visible, menu_result, reader,
                   proc_pc, monitor_sock, mon_pc, log_queue, log_buffer, qemu,
                   pty_fd_closes, sock_closes, return_code>>

\* a key for which no binding is active: nothing runs
menu_other_key ==
    /\ UNCHANGED ppVars
    /\ phase = "running"
    /\ \E key \in Keys :
        /\ key_binding(key, menu_visible) = "none"
        /\ hist' = [hist EXCEPT !.key = KeyEvent(key, FALSE, <<>>, <<>>)]
    /\ UNCHANGED <<phase, app_result, current_mode, menu_visible, menu_result, reader,
                   proc_pc, monitor_sock, mon_pc, log_queue, log_buffer, qemu,
                   pty_fd_closes, sock_closes, return_code>>

\* ---- _menu_result_processor and the handlers it awaits
\* current_mode[0] = app_config.MODE_SERIAL_CONSOLE of _handle_resume_action
\* mutant: resume leaves no mode active
handle_resume_mode_none_active(mode) == "none"
\* mutant: resume leaves the mode as it is
handle_resume_mode_unchanged(mode) == mode
handle_resume_mode(mode) == MODE_SERIAL_CONSOLE

Executed(action, mode_after) ==
    [hist EXCEPT !.executed = Append(@, [action |-> action, opened_in |-> hist.mode_at_open,
                                         mode_after |-> mode_after])]

\* _handle_resume_action: add_reader, mode, redraw (no await inside)
handle_resume_action ==
    /\ reader' = TRUE
    /\ current_mode' = handle_resume_mode(current_mode)
    /\ hist' = Executed("resume", current_mode')
    /\ UNCHANGED <<phase, app_result, proc_pc, qemu>>

\* _handle_monitor_action up to its first await: the mode is switched, and with a
\* monitor socket the coroutine waits in sock_sendall / sleep(0.3)
handle_monitor_action ==
    /\ current_mode' = MODE_QEMU_MONITOR
    /\ proc_pc' = IF monitor_sock THEN "monitor_sleep" ELSE "sleep"
    /\ hist' = Executed("monitor", current_mode')
    /\ UNCHANGED <<phase, app_result, reader, qemu>>

\* _handle_quit_action up to its first await: with a monitor socket `quit\n` is
\* sent and the coroutine sleeps 0.1 s before app.exit; when the send raises
\* OSError, or without a socket, app.exit is called at once
handle_quit_action ==
    /\ hist' = Executed("quit", current_mode)
    /\ \/ /\ monitor_sock
          /\ qemu' = [qemu EXCEPT !.got_quit = TRUE]
          /\ proc_pc' = "quit_sleep"
          /\ UNCHANGED <<phase, app_result>>
       \/ /\ UNCHANGED <<qemu, proc_pc>>
          /\ AppExit("User quit")
    /\ UNCHANGED <<current_mode, reader>>

\* _menu_result_processor after its sleep(0.1): a result left by a menu key while
\* the menu is hidden is taken, cleared and handed to _process_control_menu_result
\* (the task runs until it is cancelled, an exception of app.exit is caught)
menu_result_processor ==
    /\ UNCHANGED ppVars
    /\ LoopAlive
    /\ proc_pc = "sleep"
    /\ ~menu_visible
    /\ menu_result # "none"
    /\ menu_result' = "none"
    /\ CASE menu_result = "quit" -> handle_quit_action
         [] menu_result = "monitor" -> handle_monitor_action
         [] OTHER -> handle_resume_action
    /\ UNCHANGED <<menu_visible, monitor_sock, mon_pc, log_queue, log_buffer,
                   pty_fd_closes, sock_closes, return_code>>

\* the rest of _handle_monitor_action: invalidate, back to the polling loop
monitor_action_done ==
    /\ UNCHANGED ppVars
    /\ LoopAlive
    /\ proc_pc = "monitor_sleep"
    /\ proc_pc' = "sleep"
    /\ UNCHANGED <<phase, app_result, current_mode, menu_visible, menu_result, reader,
                   monitor_sock, mon_pc, log_queue, log_buffer, qemu, pty_fd_closes,
                   sock_closes, return_code, hist>>

\* the rest of _handle_quit_action: app.exit(result="User quit")
quit_action_exit ==
    /\ UNCHANGED ppVars
    /\ LoopAlive
    /\ proc_pc = "quit_sleep"
    /\ proc_pc' = "sleep"
    /\ AppExit("User quit")
    /\ UNCHANGED <<current_mode, menu_visible, menu_result, reader, monitor_sock, mon_pc,
                   log_queue, log_buffer, qemu, pty_fd_closes, sock_closes, return_code, hist>>

\* ---- _pty_reader_callback, run by the loop while it is registered

CountRead(h) ==
    [h EXCEPT !.pty_reads = @ + 1,
              !.reads_after_eof = IF h.eof THEN @ + 1 ELSE @,
              !.reads_in_menu = IF menu_visible THEN @ + 1 ELSE @]

\* os.read returned bytes: _process_pty_data feeds them to the guest emulator
pty_read_data ==
    /\ UNCHANGED ppVars
    /\ LoopAlive
    /\ reader
    /\ hist.pty_reads < MaxReads
    /\ hist' = [CountRead(hist) EXCEPT !.fed_chunks = @ + 1]
    /\ UNCHANGED <<phase, app_result, current_mode, menu_visible, menu_result, reader,
                   proc_pc, monitor_sock, mon_pc, log_queue, log_buffer, qemu,
                   pty_fd_closes, sock_closes, return_code>>

\* loop.remove_reader(pty_fd) of the EOF and OSError branches
\* mutant: the callback stays registered after the end of the stream
eof_reader_kept(r) == r
eof_reader(r) == FALSE

\* what the end of the PTY stream does: remove_reader, app.exit(result)
PtyStreamEnd(result) ==
    /\ UNCHANGED ppVars
    /\ LoopAlive
    /\ reader
    /\ reader' = eof_reader(reader)
    /\ AppExit(result)
    /\ hist' = [CountRead(hist) EXCEPT !.eof = TRUE]
    /\ UNCHANGED <<current_mode, menu_visible, menu_result, proc_pc, monitor_sock, mon_pc,
                   log_queue, log_buffer, qemu, pty_fd_closes, sock_closes, return_code>>

\* os.read returned b"": the PTY is closed, QEMU has exited
pty_read_eof ==
    /\ qemu.state = "exited"
    /\ PtyStreamEnd("QEMU exited")

\* os.read raised OSError (EIO on a closed device)
pty_read_oserror ==
    /\ PtyStreamEnd("PTY error")

\* any other exception in the callback: written to the debug file, remove_reader,
\* app.exit(result="PTY reader crashed")
pty_read_crash ==
    /\ UNCHANGED ppVars
    /\ LoopAlive
    /\ reader
    /\ hist.pty_reads < MaxReads
    /\ reader' = FALSE
    /\ AppExit("PTY reader crashed")
    /\ hist' = [CountRead(hist) EXCEPT !.pty_crash = TRUE]
    /\ UNCHANGED <<current_mode, menu_visible, menu_result, proc_pc, monitor_sock, mon_pc,
                   log_queue, log_buffer, qemu, pty_fd_closes, sock_closes, return_code>>

\* ---- _read_from_monitor
\* sock_recv returned bytes: _process_monitor_data
monitor_read_data ==
    /\ UNCHANGED ppVars
    /\ LoopAlive
    /\ mon_pc = "recv"
    /\ hist.mon_reads < MaxMonReads
    /\ hist' = [hist EXCEPT !.mon_reads = @ + 1]
    /\ UNCHANGED <<phase, app_result, current_mode, menu_visible, menu_result, reader,
                   proc_pc, monitor_sock, mon_pc, log_queue, log_buffer, qemu,
                   pty_fd_closes, sock_closes, return_code>>

\* sock_recv returned b"": the connection is closed, the task returns
monitor_read_closed ==
    /\ UNCHANGED ppVars
    /\ LoopAlive
    /\ mon_pc = "recv"
    /\ mon_pc' = "done"
    /\ UNCHANGED <<phase, app_result, current_mode, menu_visible, menu_result, reader,
                   proc_pc, monitor_sock, log_queue, log_buffer, qemu,
                   pty_fd_closes, sock_closes, return_code, hist>>

\* mutant: the failure of the monitor read loop is not put on the log queue
monitor_read_error_unlogged ==
    /\ UNCHANGED ppVars
    /\ LoopAlive
    /\ mon_pc = "recv"
    /\ mon_pc' = "done"
    /\ hist' = [hist EXCEPT !.mon_crash = TRUE]
    /\ UNCHANGED <<phase, app_result, current_mode, menu_visible, menu_result, reader,
                   proc_pc, monitor_sock, log_queue, log_buffer, qemu, pty_fd_closes,
                   sock_closes, return_code>>

\* an exception in the loop: _log_task_error puts the traceback on the log queue,
\* the task returns
monitor_read_error ==
    /\ UNCHANGED ppVars
    /\ LoopAlive
    /\ mon_pc = "recv"
    /\ mon_pc' = "done"
    /\ log_queue' = Append(log_queue, "MONITOR ERROR")
    /\ hist' = [hist EXCEPT !.mon_crash = TRUE]
    /\ UNCHANGED <<phase, app_result, current_mode, menu_visible, menu_result, reader,
                   proc_pc, monitor_sock, log_buffer, qemu, pty_fd_closes,
                   sock_closes, return_code>>

\* _append_to_log: the document's text followed by the new text
\* mutant: the text taken from the queue is thrown away
append_to_log_discards(text, text_to_append) == text
append_to_log(text, text_to_append) == Append(text, text_to_append)

\* ---- _log_merger: one chunk from the queue is appended to the log buffer
log_merger ==
    /\ UNCHANGED ppVars
    /\ LoopAlive
    /\ log_queue # <<>>
    /\ log_buffer' = append_to_log(log_buffer, Head(log_queue))
    /\ log_queue' = Tail(log_queue)
    /\ UNCHANGED <<phase, app_result, current_mode, menu_visible, menu_result, reader,
                   proc_pc, monitor_sock, mon_pc, qemu, pty_fd_closes, sock_closes,
                   return_code, hist>>

\* ---- the child process exits by itself (after `quit` or for its own reasons)
qemu_exits ==
    /\ UNCHANGED ppVars
    /\ LoopAlive
    /\ qemu.state = "running"
    /\ \E code \in ExitCodes :
          qemu' = [qemu EXCEPT !.state = "exited", !.returncode = <<code>>]
    /\ UNCHANGED <<phase, app_result, current_mode, menu_visible, menu_result, reader,
                   proc_pc, monitor_sock, mon_pc, log_queue, log_buffer, pty_fd_closes,
                   sock_closes, return_code, hist>>

\* ---- _manage_console_session: the except and finally clauses
\* loop.remove_reader(pty_fd) of the finally clause
\* mutant: the finally clause does not unregister the PTY reader
finally_reader_kept(r) == r
finally_reader(r) == FALSE

\* return_code = qemu_process.returncode or 0, after the except clause may have
\* set return_code = 1
\* mutant: the 1 of the except clause is kept
session_return_code_keeps_error(except_code, returncode) ==
    IF except_code = 1 THEN 1
    ELSE IF returncode = <<>> \/ returncode = <<0>> THEN 0 ELSE returncode[1]
session_return_code(except_code, returncode) ==
    IF returncode = <<>> \/ returncode = <<0>> THEN 0 ELSE returncode[1]

\* _terminate_qemu_process: wait(timeout=2); on TimeoutExpired kill() and wait().
\* A running child either exits within the two seconds or is killed.
terminate_qemu_process(q) ==
    IF q.state = "exited" THEN {q}
    ELSE {[q EXCEPT !.state = "exited", !.returncode = <<code>>] : code \in ExitCodes}
         \cup {[q EXCEPT !.state = "exited", !.returncode = <<0 - SIGKILL>>, !.killed = TRUE]}

\* the finally clause: remove_reader, _cleanup_console (_cancel_async_tasks,
\* _close_resources, _terminate_qemu_process), the return code
ManageFinally(except_code) ==
    /\ UNCHANGED ppVars
    /\ reader' = finally_reader(reader)
    /\ proc_pc' = "cancelled"
    /\ mon_pc' = "cancelled"
    /\ pty_fd_closes' = pty_fd_closes + 1
    /\ sock_closes' = IF monitor_sock THEN sock_closes + 1 ELSE sock_closes
    /\ hist' = [hist EXCEPT !.reader_at_close = Append(@, reader')]
    /\ qemu' \in terminate_qemu_process(qemu)
    /\ return_code' = <<session_return_code(except_code, qemu'.returncode)>>
    /\ phase' = "done"
    /\ UNCHANGED <<current_mode, menu_visible, menu_result, monitor_sock, log_queue, log_buffer>>

\* app.run_async() returned after app.exit: the finally clause
manage_session_exit ==
    /\ phase = "exiting"
    /\ UNCHANGED app_result
    /\ ManageFinally(0)

\* app.run_async() raised an exception: except clause (return_code = 1), finally
manage_session_exception ==
    /\ phase = "running"
    /\ app_result' = "exception"
    /\ ManageFinally(1)

Next ==
    \/ show_menu
    \/ menu_resume
    \/ menu_monitor
    \/ menu_quit
    \/ menu_result_processor
    \/ monitor_action_done
    \/ quit_action_exit
    \/ pty_read_data
    \/ pty_read_eof
    \/ pty_read_oserror
    \/ pty_read_crash
    \/ monitor_read_data
    \/ monitor_read_closed
    \/ monitor_read_error
    \/ log_merger
    \/ qemu_exits
    \/ manage_session_exit
    \/ manage_session_exception

Spec == Init /\ [][Next]_vars

(***************************************************************************)
(* SpecLive: the session with the scheduling of the asyncio event loop: a  *)
(* task that can run does run (the processor wakes from its sleep(0.1),    *)
(* the sleeps of the handlers end, the log merger gets its queue item), and*)
(* app.run_async() returns once the application has a result; a PTY whose  *)
(* other end is closed is readable, so a registered reader callback is run *)
(* and sees the end of the stream.  Keys, PTY and socket data, failures    *)
(* and the exit of the child are up to the environment.                    *)
(***************************************************************************)
SpecLive ==
    /\ Init
    /\ [][Next]_vars
    /\ WF_vars(pty_read_eof)
    /\ WF_vars(menu_result_processor)
    /\ WF_vars(monitor_action_done)
    /\ WF_vars(quit_action_exit)
    /\ WF_vars(log_merger)
    /\ WF_vars(manage_session_exit)

(***************************************************************************)
(* SpecKeys: the keyboard side of the session: the menu, the processor of  *)
(* its results and the forwarding of every other key.                      *)
(***************************************************************************)
NextKeys ==
    \/ show_menu
    \/ menu_resume
    \/ menu_monitor
    \/ menu_quit
    \/ menu_other_key
    \/ forward_input
    \/ menu_result_processor
    \/ monitor_action_done
    \/ quit_action_exit
    \/ manage_session_exit

SpecKeys == Init /\ [][NextKeys]_vars

(***************************************************************************)
(* SpecFilter: one PytePreprocessor fed an input in chunks.                *)
(***************************************************************************)
\* PytePreprocessor.__init__
InitFilter ==
    /\ pp_state = STATE_NORMAL
    /\ pp_buffer = <<>>
    /\ \/ /\ shape \in CsiShapes
          /\ screen_lines = 24
          /\ screen_columns = 80
       \/ /\ shape \in CursorShapes
          /\ screen_lines \in ScreenLines
          /\ screen_columns \in ScreenColumns
       \/ /\ shape \in LongCursorShapes \cup ByteShapes
          /\ screen_lines = 24
          /\ screen_columns = 80
    /\ pending = shape.pre \o shape.seq \o shape.post
    /\ fed = <<>>
    /\ outs = <<>>
    /\ calls = 0
    /\ acs_state = "NORMAL"
    /\ acs_buffer = <<>>
    /\ ConsoleIdle
    /\ EnvIdle
    /\ monitor_sock = FALSE
    /\ mon_pc = "done"

\* one call filter(data), data being the next k bytes of the input
FilterCall ==
    \E k \in 1..Len(pending) :
        LET data == SubSeq(pending, 1, k)
            r == filter(pp_state, pp_buffer, data, screen_lines, screen_columns)
        IN /\ pp_state' = r.state
           /\ pp_buffer' = r.buffer
           /\ outs' = outs \o r.output
           /\ fed' = fed \o data
           /\ pending' = SubSeq(pending, k + 1, Len(pending))
           /\ calls' = IF calls < 2 THEN calls + 1 ELSE calls
           /\ UNCHANGED <<screen_lines, screen_columns, shape, acs_state, acs_buffer, conVars,
                        envVars>>

NextFilter == FilterCall

SpecFilter == InitFilter /\ [][NextFilter]_vars

(***************************************************************************)
(* SpecAcs: one ACSTranslator fed an input in chunks.                      *)
(***************************************************************************)
\* ACSTranslator.__init__ (reset)
InitAcs ==
    /\ acs_state = NORMAL
    /\ acs_buffer = <<>>
    /\ shape \in AcsRunShapes \cup AcsByteShapes
    /\ pending = shape.pre \o shape.seq \o shape.post
    /\ fed = <<>>
    /\ outs = <<>>
    /\ calls = 0
    /\ pp_state = STATE_NORMAL
    /\ pp_buffer = <<>>
    /\ screen_lines = 24
    /\ screen_columns = 80
    /\ ConsoleIdle
    /\ EnvIdle
    /\ monitor_sock = FALSE
    /\ mon_pc = "done"

\* one call translate(data), data being the next k bytes of the input (k = 0: an
\* empty chunk)
TranslateCall ==
    /\ pending # <<>>
    /\ \E k \in 0..Len(pending) :
        LET data == SubSeq(pending, 1, k)
            r == translate(acs_state, acs_buffer, data)
        IN /\ acs_state' = r.state
           /\ acs_buffer' = r.buffer
           /\ outs' = outs \o r.output
           /\ fed' = fed \o data
           /\ pending' = SubSeq(pending, k + 1, Len(pending))
           /\ calls' = IF calls < 2 THEN calls + 1 ELSE calls
           /\ UNCHANGED <<pp_state, pp_buffer, screen_lines, screen_columns, shape, conVars,
                        envVars>>

NextAcs == TranslateCall

SpecAcs == InitAcs /\ [][NextAcs]_vars

(***************************************************************************)
(* SpecAcsFrom: one ACSTranslator fed an input in chunks, from either mode *)
(* (a translator is in graphics mode after an earlier ESC ( 0).            *)
(***************************************************************************)
AcsGraphicsShapes ==
    {[kind |-> "acs_graphics", pre |-> <<>>, seq |-> s, post |-> <<>>, row |-> 0, col |-> 0] :
        s \in TokenSeqs(MaxAcsTokens)}

\* the mode the translator of the run started in
StartMode == IF shape.kind = "acs_graphics" THEN ACS_MODE ELSE NORMAL

InitAcsFrom ==
    /\ shape \in AcsByteShapes \cup AcsGraphicsShapes
    /\ acs_state = StartMode
    /\ acs_buffer = <<>>
    /\ pending = shape.seq
    /\ fed = <<>>
    /\ outs = <<>>
    /\ calls = 0
    /\ pp_state = STATE_NORMAL
    /\ pp_buffer = <<>>
    /\ screen_lines = 24
    /\ screen_columns = 80
    /\ ConsoleIdle
    /\ EnvIdle
    /\ monitor_sock = FALSE
    /\ mon_pc = "done"

SpecAcsFrom == InitAcsFrom /\ [][NextAcs]_vars

(***************************************************************************)
(* Claims about PytePreprocessor (checked under SpecFilter).               *)
(***************************************************************************)
\* where the escape sequence of the input starts and ends
SeqStart == Len(shape.pre)
SeqEnd == Len(shape.pre) + Len(shape.seq)

\* what has to be out when the CSI sequence of the input is removed whole and the
\* plain bytes around it pass: nothing of the sequence, everything else fed so far
OutputWithoutSeq ==
    IF Len(fed) <= SeqStart THEN fed
    ELSE IF Len(fed) <= SeqEnd THEN shape.pre
    ELSE shape.pre \o SubSeq(fed, SeqEnd + 1, Len(fed))

CsiIntermediateRemoved ==
    /\ outs = OutputWithoutSeq
    /\ Len(fed) >= SeqEnd => pp_state = STATE_NORMAL /\ pp_buffer = <<>>

\* C1 (as stated): filter, from the Normal state with an empty buffer, for every
\* CSI sequence with at least one intermediate byte and every cutting of it into
\* chunks: the outputs concatenated hold nothing of the sequence, the state is
\* Normal again after it, and the bytes before and after it come out unchanged.
C1_EveryCsiIntermediateRemoved ==
    shape.kind = "csi_int" => CsiIntermediateRemoved

\* C1 (amended): the same for every such sequence of at most MAX_BUFFER_SIZE + 1
\* = 65 bytes (ESC and '[' counted); a longer one overflows the buffer and its
\* tail is output as plain text.
C1_CsiIntermediateUpTo65Removed ==
    (shape.kind = "csi_int" /\ Len(shape.seq) <= MAX_BUFFER_SIZE + 1) => CsiIntermediateRemoved

\* a 65-byte CSI sequence with an intermediate byte, between plain bytes, fed whole
\* in two or more chunks, one of which ended inside the sequence
C1_Witness ==
    /\ shape.kind = "csi_int"
    /\ Len(shape.seq) = MAX_BUFFER_SIZE + 1
    /\ shape.pre # <<>> /\ shape.post # <<>>
    /\ pending = <<>>
    /\ calls = 2
    /\ outs = shape.pre \o shape.post

\* the result filter must give for ESC [ row ; col H on a rows x cols screen
CursorDroppedIffBeyondScreen ==
    outs = IF shape.row > screen_lines \/ shape.col > screen_columns THEN <<>> ELSE shape.seq

\* C2 (as stated): for all row, col >= 0, filter(ESC [ row ; col H) returns the
\* empty string iff row > rows or col > cols, and the input sequence otherwise.
C2_CursorDroppedIff ==
    (shape.kind = "cup" /\ pending = <<>>) => CursorDroppedIffBeyondScreen

\* C2 (amended): the same for all row, col >= 0 whose sequence ESC [ row ; col H
\* is at most MAX_BUFFER_SIZE + 1 = 65 bytes long (61 digits in all).
C2_CursorUpTo65DroppedIff ==
    (shape.kind = "cup" /\ pending = <<>> /\ Len(shape.seq) <= MAX_BUFFER_SIZE + 1)
        => CursorDroppedIffBeyondScreen

\* the row one past the last line with the column on the last column is dropped
C2_Witness ==
    /\ shape.kind = "cup"
    /\ pending = <<>>
    /\ shape.row = screen_lines + 1
    /\ shape.col = screen_columns
    /\ outs = <<>>

(***************************************************************************)
(* Claims about the console session (checked under Spec).                  *)
(***************************************************************************)
\* the actions the processor has executed, in order
ExecutedActions == [i \in 1..Len(hist.executed) |-> hist.executed[i].action]

\* text is on its way to, or in, the log buffer
Logged(text) ==
    \/ \E i \in 1..Len(log_queue) : log_queue[i] = text
    \/ \E i \in 1..Len(log_buffer) : log_buffer[i] = text

\* C3 (as stated): whenever the menu is opened and Resume is selected, after the
\* action has been processed the mode equals the value it had when the menu was
\* opened.
C3_ResumeRestoresMode ==
    \A i \in 1..Len(hist.executed) :
        hist.executed[i].action = "resume"
            => hist.executed[i].mode_after = hist.executed[i].opened_in

\* C3 (amended): whenever the menu is opened and Resume is selected, after the
\* action has been processed the mode is SerialConsole, whatever it was when the
\* menu was opened.
C3_ResumeSelectsSerialConsole ==
    \A i \in 1..Len(hist.executed) :
        hist.executed[i].action = "resume"
            => hist.executed[i].mode_after = MODE_SERIAL_CONSOLE

\* the menu was opened in the monitor mode and Resume led to the serial console
C3_Witness ==
    \E i \in 1..Len(hist.executed) :
        /\ hist.executed[i].action = "resume"
        /\ hist.executed[i].opened_in = MODE_QEMU_MONITOR
        /\ hist.executed[i].mode_after = MODE_SERIAL_CONSOLE
        /\ current_mode = MODE_SERIAL_CONSOLE

\* C4: every menu visit ended by an action key has that action executed exactly
\* once: at any moment the actions selected so far are the actions executed so
\* far, in order, followed by the one selection that still waits for the
\* processor's next poll, if there is one.
C4_EverySelectionExecutedOnce ==
    hist.selections = IF menu_result = "none" THEN ExecutedActions
                      ELSE Append(ExecutedActions, menu_result)

\* C5: in every reachable state in which the control menu is visible the PTY read
\* callback is not registered with the event loop, and no PTY read has been made
\* while the menu was visible.
C5_MenuVisibleReaderPaused ==
    /\ menu_visible => ~reader
    /\ hist.reads_in_menu = 0

\* the menu is open for the second time, after a Resume had registered the
\* callback again and PTY data had been read
C5_Witness ==
    /\ menu_visible
    /\ phase = "running"
    /\ hist.visits = 2
    /\ ExecutedActions = <<"resume">>
    /\ hist.pty_reads > 0
    /\ ~reader

\* C6: whenever a session that completed setup ends (PTY EOF, PTY read error,
\* Quit, exception from the application loop), run_prompt_toolkit_console returns
\* the child process's exit code.
C6_ReturnsChildExitCode ==
    phase = "done" => (qemu.returncode # <<>> /\ return_code = qemu.returncode)

\* the application loop raised, the child exited with 0, and 0 is returned
C6_Witness ==
    /\ phase = "done"
    /\ app_result = "exception"
    /\ qemu.returncode = <<0>>
    /\ return_code = <<0>>

\* C7: when Quit is selected while no control socket is connected and the child
\* does not exit on its own, the child is forcibly terminated after the bounded
\* wait and the session returns an exit code that is >= 0.
C7_QuitWithoutSocketNonNegative ==
    (phase = "done" /\ app_result = "User quit" /\ ~monitor_sock /\ qemu.killed)
        => return_code[1] >= 0

\* C8: a zero-length PTY read or an OSError of the PTY read unregisters the PTY
\* read callback and ends the session as a normal end of session (a running
\* application exits with "QEMU exited" or "PTY error", the child's exit code is
\* returned); after it no PTY read is made and nothing more is fed to the guest
\* emulator.
C8_PtyEndOfStreamEndsSession ==
    /\ [](hist.eof =>
            /\ ~reader
            /\ phase # "running"
            /\ app_result \in {"QEMU exited", "PTY error", "User quit"}
            /\ hist.reads_after_eof = 0
            /\ phase = "done" => return_code = qemu.returncode)
    /\ [][(~hist.eof /\ hist'.eof)
              => /\ ~reader'
                 /\ hist'.fed_chunks = hist.fed_chunks
                 /\ phase = "running" =>
                        (phase' = "exiting" /\ app_result' \in {"QEMU exited", "PTY error"})]_vars

\* PTY data was read and fed, then the read raised OSError, and the session ended
C8_Witness ==
    /\ hist.eof
    /\ hist.fed_chunks > 0
    /\ app_result = "PTY error"
    /\ phase = "done"
    /\ ~reader

\* C9: on every path by which a started session ends, the PTY file descriptor and
\* the control socket (if one was connected) are each closed exactly once, not
\* before the end, and the PTY read callback is unregistered from the event loop
\* when the PTY descriptor is closed.
C9_HandlesClosedOnce ==
    /\ phase = "done" =>
          /\ pty_fd_closes = 1
          /\ sock_closes = (IF monitor_sock THEN 1 ELSE 0)
          /\ hist.reader_at_close = <<FALSE>>
    /\ phase # "done" =>
          /\ pty_fd_closes = 0
          /\ sock_closes = 0
          /\ hist.reader_at_close = <<>>

\* the application loop raised while the callback was registered and a control
\* socket was connected; the session ended with both handles closed
C9_Witness ==
    /\ phase = "done"
    /\ app_result = "exception"
    /\ monitor_sock
    /\ hist.visits = 0
    /\ pty_fd_closes = 1
    /\ sock_closes = 1

RECURSIVE AcsUnicode(_)
AcsUnicode(t) ==
    IF t = <<>> THEN <<>> ELSE utf8_encode(acs_map[Head(t)]) \o AcsUnicode(Tail(t))

\* C11: once an input ESC ( 0 ++ t ++ ESC ( B, t a string of keys of the ACS
\* table, has been passed in whole to translate, however it was cut into chunks,
\* the concatenated outputs are the UTF-8 encoding of the table's characters for
\* t, and the translator is in Normal mode with an empty buffer.
C11_AcsRunTranslated ==
    (shape.kind = "acs_run" /\ pending = <<>>) =>
        /\ outs = AcsUnicode(shape.seq)
        /\ acs_state = NORMAL
        /\ acs_buffer = <<>>

\* a two-key run fed in more than one call has been translated
C11_Witness ==
    /\ shape.kind = "acs_run"
    /\ Len(shape.seq) = MaxAcsRun
    /\ pending = <<>>
    /\ calls = 2
    /\ outs = AcsUnicode(shape.seq)
    /\ Len(outs) > Len(shape.seq)

\* the byte string s contains the byte string q
Contains(s, q) == \E i \in 1..(Len(s) - Len(q) + 1) : SubSeq(s, i, i + Len(q) - 1) = q
NoModeSwitch(s) == ~Contains(s, ACS_ENTER_SEQ) /\ ~Contains(s, ACS_EXIT_SEQ)

\* the start of a mode-switch sequence that s ends with: ESC, ESC ( or nothing
HeldTail(s) ==
    IF Len(s) >= 1 /\ s[Len(s)] = ESC THEN <<ESC>>
    ELSE IF Len(s) >= 2 /\ SubSeq(s, Len(s) - 1, Len(s)) = SubSeq(ACS_ENTER_SEQ, 1, 2)
         THEN SubSeq(ACS_ENTER_SEQ, 1, 2)
    ELSE <<>>

\* C12 (as stated): the first translate call of a translator, on a byte string
\* that contains neither ESC ( 0 nor ESC ( B, returns exactly that string and
\* leaves the mode Normal.
C12_NoSwitchReturnedUnchanged ==
    (calls = 1 /\ NoModeSwitch(fed)) => (outs = fed /\ acs_state = NORMAL)

\* C12 (amended): the first translate call on a byte string without ESC ( 0 and
\* ESC ( B returns the string without the ESC or ESC ( it ends with, keeps that
\* tail in the buffer and leaves the mode Normal; the string is returned
\* unchanged exactly when it does not end with ESC or ESC (.
C12_NoSwitchReturnedButHeldTail ==
    (calls = 1 /\ NoModeSwitch(fed)) =>
        /\ acs_buffer = HeldTail(fed)
        /\ outs \o acs_buffer = fed
        /\ acs_state = NORMAL

\* a table key followed by ESC ( went through one call: the key is returned
\* as it is, ESC ( is held back
C12_Witness ==
    /\ calls = 1
    /\ fed = <<113>> \o SubSeq(ACS_ENTER_SEQ, 1, 2)
    /\ outs = <<113>>
    /\ acs_buffer = SubSeq(ACS_ENTER_SEQ, 1, 2)

\* the positions of s at which a mode-switch sequence starts, and the positions
\* they cover (both sequences start with ESC and hold no other ESC, so no two
\* of them overlap)
SwitchStarts(s) ==
    {i \in 1..(Len(s) - 2) : SubSeq(s, i, i + 2) \in {ACS_ENTER_SEQ, ACS_EXIT_SEQ}}
InSwitch(s, j) == \E i \in SwitchStarts(s) : i <= j /\ j <= i + 2

\* the mode the last mode-switch sequence of s asks for
ModeAfter(s) ==
    IF SwitchStarts(s) = {} THEN NORMAL
    ELSE LET last == CHOOSE i \in SwitchStarts(s) : \A k \in SwitchStarts(s) : k <= i
         IN IF SubSeq(s, last, last + 2) = ACS_ENTER_SEQ THEN ACS_MODE ELSE NORMAL

\* the bytes of s[1..j] outside the mode-switch sequences, each in the mode of
\* the last sequence before it
RECURSIVE OutputWithoutSwitches(_, _)
OutputWithoutSwitches(s, j) ==
    IF j = 0 THEN <<>>
    ELSE OutputWithoutSwitches(s, j - 1) \o
         (IF InSwitch(s, j) THEN <<>>
          ELSE IF ModeAfter(SubSeq(s, 1, j - 1)) = ACS_MODE /\ s[j] \in DOMAIN acs_map
               THEN utf8_encode(acs_map[s[j]])
          ELSE <<s[j]>>)

\* C17: at every call boundary, whatever the chunking, the output holds nothing
\* for the ESC ( 0 and ESC ( B sequences received so far (and nothing yet for a
\* held-back ESC or ESC ( at the end), and the mode is the one asked for by the
\* last of them: graphics mode after ESC ( 0 and Normal after ESC ( B, whatever
\* the mode was before.
C17_SwitchesConsumedModeFollowsLast ==
    /\ acs_state = ModeAfter(fed)
    /\ acs_buffer = HeldTail(fed)
    /\ outs = OutputWithoutSwitches(fed, Len(fed) - Len(HeldTail(fed)))

\* ESC ( 0 twice and then a table key, passed in several calls: the mode is
\* graphics mode and only the key's character is output
C17_Witness ==
    /\ fed = ACS_ENTER_SEQ \o ACS_ENTER_SEQ \o <<113>>
    /\ calls = 2
    /\ acs_state = ACS_MODE
    /\ outs = utf8_encode(acs_map[113])

(***************************************************************************)
(* Further claims about PytePreprocessor (specification SpecFilter).       *)
(***************************************************************************)
\* one filter call, on a fresh preprocessor, with everything fed so far
FilterWhole == filter(STATE_NORMAL, <<>>, fed, screen_lines, screen_columns)

\* C13: chunk invariance of filter: at every call boundary, however the bytes
\* fed so far were cut into calls, the concatenated outputs, the FSM state and
\* the buffer are those of a single filter call with all these bytes on a fresh
\* preprocessor with the same screen size.
C13_ChunkInvariance ==
    /\ outs = FilterWhole.output
    /\ pp_state = FilterWhole.state
    /\ pp_buffer = FilterWhole.buffer

\* a second call has started inside an escape sequence that the first call had
\* begun, and the result is that of the one-call run
C13_Witness ==
    /\ calls = 2
    /\ shape.kind = "bytes"
    /\ fed = <<ESC, LBRACKET, 49, 33>>
    /\ pp_state = STATE_CSI_INTERMEDIATE
    /\ pp_buffer = fed
    /\ outs = <<>>

\* the input's escape sequence has no final byte among its first
\* MAX_BUFFER_SIZE + 1 bytes, and these have all been fed
OverflowFed ==
    /\ shape.kind \in {"csi_int", "cup"}
    /\ Len(shape.seq) > MAX_BUFFER_SIZE + 1
    /\ Len(fed) >= SeqStart + MAX_BUFFER_SIZE + 1

\* C14: at every call boundary the buffer holds at most MAX_BUFFER_SIZE = 64
\* bytes; once an escape sequence has grown to 65 bytes without a final byte
\* these 65 bytes are never output (the output is the bytes before them and the
\* bytes after them), and right after the 65th byte the state is Normal and the
\* buffer is empty.
C14_BufferBoundedOverflowDiscarded ==
    /\ Len(pp_buffer) <= MAX_BUFFER_SIZE
    /\ OverflowFed =>
          outs = shape.pre \o SubSeq(fed, SeqStart + MAX_BUFFER_SIZE + 2, Len(fed))
    /\ (OverflowFed /\ Len(fed) = SeqStart + MAX_BUFFER_SIZE + 1) =>
          (pp_state = STATE_NORMAL /\ pp_buffer = <<>>)

\* a call has ended on the 65th byte of a sequence without a final byte: the
\* 65 bytes are gone and the preprocessor is in the Normal state
C14_Witness ==
    /\ OverflowFed
    /\ Len(fed) = SeqStart + MAX_BUFFER_SIZE + 1
    /\ calls = 2
    /\ shape.pre # <<>>
    /\ outs = shape.pre
    /\ pp_state = STATE_NORMAL
    /\ pp_buffer = <<>>

\* a filter call with one byte
OneByteFed == Len(fed') = Len(fed) + 1
FedByte == fed'[Len(fed')]

\* a byte of the CSI ranges: intermediate 0x20-0x2f, parameter 0x30-0x3f,
\* final 0x40-0x7e
InCsiRanges(byte) == 32 <= byte /\ byte <= 126

\* the tracked bytes and the byte that ended the tracking are output, in order
TrackedBytesEmitted ==
    /\ outs' = outs \o pp_buffer \o <<FedByte>>
    /\ pp_state' = STATE_NORMAL
    /\ pp_buffer' = <<>>

\* C15 (as stated): when the preprocessor tracks an escape sequence and the next
\* byte shows it is no recognised CSI shape (after ESC a byte other than '[',
\* inside a CSI a byte that is no parameter, intermediate or final byte), the
\* tracked bytes and that byte are output unchanged and the state is Normal.
C15_UnrecognisedAlwaysEmitted ==
    [][(OneByteFed /\ \/ pp_state = STATE_ESC_SEEN /\ FedByte # LBRACKET
                      \/ /\ pp_state \in {STATE_CSI_STARTED, STATE_CSI_INTERMEDIATE}
                         /\ ~InCsiRanges(FedByte))
        => TrackedBytesEmitted]_vars

\* C15 (amended): this holds in the states EscSeen and CsiStarted; in the state
\* CsiIntermediate such a byte makes the preprocessor drop the tracked bytes and
\* the byte itself, and the state is Normal.
C15_UnrecognisedEmittedUnlessIntermediate ==
    [][/\ (OneByteFed /\ \/ pp_state = STATE_ESC_SEEN /\ FedByte # LBRACKET
                         \/ pp_state = STATE_CSI_STARTED /\ ~InCsiRanges(FedByte))
          => TrackedBytesEmitted
       /\ (OneByteFed /\ pp_state = STATE_CSI_INTERMEDIATE /\ ~InCsiRanges(FedByte))
          => (outs' = outs /\ pp_state' = STATE_NORMAL /\ pp_buffer' = <<>>)
      ]_vars

\* ESC [ 1 and a line feed were fed in several calls: all four bytes are out
C15_Witness ==
    /\ shape.kind = "bytes"
    /\ fed = <<ESC, LBRACKET, 49, 10>>
    /\ calls = 2
    /\ outs = fed
    /\ pp_state = STATE_NORMAL
    /\ pp_buffer = <<>>

NoEsc(s) == \A i \in 1..Len(s) : s[i] # ESC

\* C16: as long as no ESC byte has been fed to a preprocessor that started in
\* the Normal state, the output is exactly the bytes fed, the state is Normal
\* and the buffer is empty.
C16_PlainTextUnchanged ==
    NoEsc(fed) => (outs = fed /\ pp_state = STATE_NORMAL /\ pp_buffer = <<>>)

\* one call with '[', '1', '!' and a line feed returned these four bytes
C16_Witness ==
    /\ shape.kind = "bytes"
    /\ fed = <<LBRACKET, 49, 33, 10>>
    /\ calls = 1
    /\ pending = <<>>
    /\ outs = fed
    /\ pp_state = STATE_NORMAL

(***************************************************************************)
(* Claims about the keyboard (specification SpecKeys).                     *)
(***************************************************************************)
\* a key event that was no menu key and did not open the menu has happened
OtherKeyPressed == hist'.key # hist.key

\* C18: a step that hides the visible menu is one of the keys r/R, e/E, q/Q: it
\* records that one action as the pending result; any other key pressed while
\* the menu is visible, Ctrl-] included, leaves the menu visible, records no
\* action and writes nothing to the PTY or to the monitor socket.
C18_MenuLeftOnlyByActionKeys ==
    /\ [](hist.key.in_menu => (hist.key.pty = <<>> /\ hist.key.sock = <<>>))
    /\ [][/\ (menu_visible /\ ~menu_visible') =>
                /\ menu_result' \in {"resume", "monitor", "quit"}
                /\ hist'.selections = Append(hist.selections, menu_result')
                /\ hist'.key = hist.key
          /\ (menu_visible /\ OtherKeyPressed) =>
                /\ menu_visible'
                /\ menu_result' = menu_result
                /\ hist'.selections = hist.selections
         ]_vars

\* Ctrl-] was pressed in the visible menu: the menu is still visible, no action
\* is pending and nothing was written
C18_Witness ==
    /\ menu_visible
    /\ menu_result = "none"
    /\ hist.key.in_menu
    /\ hist.key.data = <<KEY_CTRL_RBRACKET>>
    /\ hist.key.pty = <<>>
    /\ hist.key.sock = <<>>

\* the last key event happened with the menu hidden
KeyForwarded == hist.key.data # <<>> /\ ~hist.key.in_menu
\* a key event with the menu hidden leaves the mode and the menu state alone
ForwardLeavesModeAndMenu ==
    [][(~menu_visible /\ OtherKeyPressed) =>
          /\ current_mode' = current_mode
          /\ menu_visible' = menu_visible
          /\ menu_result' = menu_result]_vars

\* C19 (as stated): with the menu hidden every key but Ctrl-] is written, UTF-8
\* encoded, to the PTY in the serial console mode and to the monitor socket in
\* the monitor mode, never to the other channel, and changes neither the mode
\* nor the menu state.
C19_KeyWrittenToActiveChannel ==
    /\ [](KeyForwarded =>
            IF hist.key.mode = MODE_SERIAL_CONSOLE
            THEN hist.key.pty = encode_utf8_replace(hist.key.data) /\ hist.key.sock = <<>>
            ELSE hist.key.sock = encode_utf8_replace(hist.key.data) /\ hist.key.pty = <<>>)
    /\ ForwardLeavesModeAndMenu

\* C19 (amended): with the menu hidden every key but Ctrl-] is written, UTF-8
\* encoded, to the PTY in the serial console mode, and to the monitor socket in
\* the monitor mode when a monitor socket is connected; in the monitor mode
\* without a socket, and when the write fails, it is written nowhere. It is
\* never written to the other channel and changes neither the mode nor the menu
\* state.
C19_KeyWrittenWhereChannelExists ==
    /\ [](KeyForwarded =>
            /\ hist.key.pty =
                 IF hist.key.mode = MODE_SERIAL_CONSOLE /\ ~hist.key.failed
                 THEN encode_utf8_replace(hist.key.data) ELSE <<>>
            /\ hist.key.sock =
                 IF hist.key.mode = MODE_QEMU_MONITOR /\ hist.key.sock_open /\ ~hist.key.failed
                 THEN encode_utf8_replace(hist.key.data) ELSE <<>>)
    /\ ForwardLeavesModeAndMenu

\* Ctrl-C was pressed in the monitor mode with a socket: it went to the socket,
\* as the byte 0x03, and the mode is still the monitor mode
C19_Witness ==
    /\ KeyForwarded
    /\ hist.key.data = <<KEY_CTRL_C>>
    /\ hist.key.mode = MODE_QEMU_MONITOR
    /\ hist.key.sock = <<KEY_CTRL_C>>
    /\ hist.key.pty = <<>>
    /\ current_mode = MODE_QEMU_MONITOR
    /\ ~menu_visible

(***************************************************************************)
(* Claims about the end of the session (specification SpecLive).           *)
(***************************************************************************)
\* C20: after Quit has been selected in the control menu the session eventually
\* ends, with the child process no longer running.
C20_QuitEventuallyEndsSession ==
    (menu_result = "quit") ~> (phase = "done" /\ qemu.state = "exited")

(***************************************************************************)
(* Further claims about ACSTranslator (specification SpecAcsFrom).         *)
(***************************************************************************)
\* one translate call, on a translator in the starting mode, with everything
\* fed so far
TranslateWhole == translate(StartMode, <<>>, fed)

\* C29: chunk invariance of translate: at every call boundary, however the bytes
\* fed so far were cut into calls and whichever mode the translator started in,
\* the concatenated outputs, the mode and the carry buffer are those of a single
\* translate call with all these bytes on a translator started in the same mode.
C29_TranslateChunkInvariance ==
    /\ outs = TranslateWhole.output
    /\ acs_state = TranslateWhole.state
    /\ acs_buffer = TranslateWhole.buffer

\* a translator started in graphics mode got, in several calls, a table key,
\* ESC ( B and the key again: the first key is translated, the second one is not
C29_Witness ==
    /\ shape.kind = "acs_graphics"
    /\ fed = <<113>> \o ACS_EXIT_SEQ \o <<113>>
    /\ calls = 2
    /\ outs = utf8_encode(acs_map[113]) \o <<113>>
    /\ acs_state = NORMAL
    /\ acs_buffer = <<>>

\* the number of characters in a UTF-8 byte string: the bytes that are no
\* continuation bytes (0x80-0xbf)
CharCount(bytes) == Cardinality({i \in 1..Len(bytes) : ~(128 <= bytes[i] /\ bytes[i] <= 191)})

\* C30: after every translate call the carry buffer is empty, ESC, or ESC '(',
\* so at most 2 bytes, and it is the end of the input so far; every input byte
\* (the inputs are ASCII) is one character of the outputs, one of the three
\* bytes of a mode-switch sequence, or one byte of the carry buffer.
C30_CarryBufferAtMostPartialSwitch ==
    /\ acs_buffer \in {<<>>, <<ESC>>, <<ESC, 40>>}
    /\ Len(acs_buffer) <= 2
    /\ acs_buffer = SubSeq(fed, Len(fed) - Len(acs_buffer) + 1, Len(fed))
    /\ Len(fed) = CharCount(outs) + 3 * Cardinality(SwitchStarts(fed)) + Len(acs_buffer)

\* after ESC ( 0, a table key and ESC ( the buffer holds ESC (, the sequence
\* is consumed and the key is out as one three-byte character
C30_Witness ==
    /\ fed = ACS_ENTER_SEQ \o <<113, ESC, 40>>
    /\ calls = 2
    /\ acs_buffer = <<ESC, 40>>
    /\ outs = utf8_encode(acs_map[113])
    /\ Len(outs) = 3

ISIG == "ISIG"
IEXTEN == "IEXTEN"
IXON == "IXON"
IXOFF == "IXOFF"
ECHO == "ECHO"
ICRNL == "ICRNL"

\* the flags _apply_termios_hardening clears
HardenedFlags == {ISIG, IEXTEN, IXON, IXOFF}

\* the flags of stdin the model follows
TermiosFlags == HardenedFlags \cup {ECHO, ICRNL}

\* the flags the raw mode of app.run_async() clears (among TermiosFlags)
RawModeFlags == TermiosFlags

\* new_iflag = iflag & ~(IXON | IXOFF); new_lflag = lflag & ~(ISIG | IEXTEN)
harden_flags(flags) == flags \ HardenedFlags

\* mutant: only the input flags IXON and IXOFF are put back
restore_terminal_flags_iflag_only(current, original) == current \cup (original \cap {IXON, IXOFF})

\* restored_iflag = current_iflag | (original_iflag & (IXON | IXOFF));
\* restored_lflag = current_lflag | (original_lflag & (ISIG | IEXTEN))
restore_terminal_flags(current, original) == current \cup (original \cap HardenedFlags)

\* _restore_terminal_state(original_attrs): nothing without saved attributes
restore_terminal_state(t) ==
    IF t.original = <<>> THEN t.flags
    ELSE CHOOSE r \in {restore_terminal_flags(t.flags, t.original[1])} : TRUE

termiosFrame == <<ioVars, conVars, setup, host, winsize, mon_screen, emu_stale, pty_replies,
                  out_queue, mon_conn>>

InitTermios ==
    /\ IoIdle
    /\ ConsoleIdle
    /\ monitor_sock = FALSE
    /\ mon_pc = "done"
    /\ SetupIdle
    /\ ScreenIdle
    /\ ConnIdle
    /\ tty \in {[flags |-> f, original |-> <<>>, saved |-> <<>>, pc |-> "start", path |-> "none"] :
                  f \in SUBSET TermiosFlags}

\* _apply_termios_hardening: returns the attributes it found and clears the four
\* flags, or (tcgetattr fails, stdin is no terminal) returns None and changes nothing
apply_termios_hardening ==
    /\ tty.pc = "start"
    /\ \E ok \in BOOLEAN :
        tty' = IF ok THEN [tty EXCEPT !.original = <<tty.flags>>,
                                      !.flags = harden_flags(tty.flags),
                                      !.pc = "hardened"]
               ELSE [tty EXCEPT !.pc = "hardened"]
    /\ UNCHANGED termiosFrame

\* an exception after atexit.register and before the try of _manage_console_session
\* (_create_async_tasks, add_reader): only the atexit handler is left
setup_raises ==
    /\ tty.pc = "hardened"
    /\ tty' = [tty EXCEPT !.pc = "exiting", !.path = "atexit"]
    /\ UNCHANGED termiosFrame

\* app.run_async() enters raw mode
run_async_enter ==
    /\ tty.pc = "hardened"
    /\ tty' = [tty EXCEPT !.saved = <<tty.flags>>,
                          !.flags = tty.flags \ RawModeFlags,
                          !.pc = "raw"]
    /\ UNCHANGED termiosFrame

\* app.run_async() returns: raw mode puts back the attributes it saved
run_async_returns ==
    /\ tty.pc = "raw"
    /\ tty' = [tty EXCEPT !.flags = tty.saved[1], !.pc = "finally", !.path = "normal"]
    /\ UNCHANGED termiosFrame

\* _run_application_loop raises, before or inside app.run_async()
run_async_raises ==
    /\ tty.pc \in {"hardened", "raw"}
    /\ tty' = [tty EXCEPT !.flags = IF tty.pc = "raw" THEN tty.saved[1] ELSE tty.flags,
                          !.pc = "finally", !.path = "exception"]
    /\ UNCHANGED termiosFrame

\* the finally block of _manage_console_session
finally_restore ==
    /\ tty.pc = "finally"
    /\ tty' = [tty EXCEPT !.flags = restore_terminal_state(tty), !.pc = "exiting"]
    /\ UNCHANGED termiosFrame

\* the handler atexit.register(_restore_terminal_state, original_attrs, debug_file)
atexit_restore ==
    /\ tty.pc = "exiting"
    /\ tty' = [tty EXCEPT !.flags = restore_terminal_state(tty), !.pc = "exited"]
    /\ UNCHANGED termiosFrame

NextTermios ==
    \/ apply_termios_hardening
    \/ setup_raises
    \/ run_async_enter
    \/ run_async_returns
    \/ run_async_raises
    \/ finally_restore
    \/ atexit_restore

SpecTermios == InitTermios /\ [][NextTermios]_vars

\* the session has ended: the finally block has run, or the interpreter has exited
SessionEnded == tty.pc = "exited" \/ (tty.pc = "exiting" /\ tty.path # "atexit")

MaxLines == 2

setupFrame == <<ioVars, conVars, tty, host, winsize, mon_screen, emu_stale, pty_replies,
                mon_conn>>

InitSetup ==
    /\ IoIdle
    /\ ConsoleIdle
    /\ monitor_sock = FALSE
    /\ mon_pc = "done"
    /\ TtyIdle
    /\ host = [rows |-> 24, cols |-> 80, resizes |-> 0]
    /\ winsize = [rows |-> 24, cols |-> 80]
    /\ mon_screen = [lines |-> 24, columns |-> 80]
    /\ emu_stale = FALSE
    /\ pty_replies = <<>>
    /\ out_queue = 0
    /\ mon_conn = [socket |-> "listening", attempts |-> 0, pc |-> "start"]
    /\ setup \in {[pc |-> "wait", thread |-> "reading", event |-> FALSE, holder |-> FALSE,
                   child |-> "running", lines |-> 0, pty_exists |-> e, path |-> "none",
                   exit_code |-> <<>>] : e \in BOOLEAN}

\* parse_pty_device_from_thread, one turn of the loop: the line goes to the output
\* queue; the first line that matches `char device redirected to (/dev/[^\s]+)`
\* fills the holder and sets the event
thread_reads_line ==
    /\ setup.thread = "reading"
    /\ setup.lines < MaxLines
    /\ \E match \in BOOLEAN :
        setup' = IF match /\ ~setup.event
                 THEN [setup EXCEPT !.lines = @ + 1, !.holder = TRUE, !.event = TRUE]
                 ELSE [setup EXCEPT !.lines = @ + 1]
    /\ out_queue' = out_queue + 1
    /\ UNCHANGED setupFrame

\* readline returns '' once the child's end of the pipe is closed: the loop ends
thread_eof ==
    /\ setup.thread = "reading"
    /\ setup.child # "running"
    /\ setup' = [setup EXCEPT !.thread = "done"]
    /\ UNCHANGED <<out_queue, setupFrame>>

\* event.wait(timeout=10.0) returns True and holder[0] is set
wait_found ==
    /\ setup.pc = "wait"
    /\ setup.event /\ setup.holder
    /\ setup' = [setup EXCEPT !.pc = "open"]
    /\ UNCHANGED <<out_queue, setupFrame>>

\* event.wait(timeout=10.0) returns False after 10 seconds
wait_timeout ==
    /\ setup.pc = "wait"
    /\ ~setup.event
    /\ setup' = [setup EXCEPT !.pc = "kill", !.path = "timeout"]
    /\ UNCHANGED <<out_queue, setupFrame>>

\* process.kill() of the timeout branch
kill_child ==
    /\ setup.pc = "kill"
    /\ setup' = [setup EXCEPT !.child = IF @ = "running" THEN "killed" ELSE @,
                              !.pc = "join"]
    /\ UNCHANGED <<out_queue, setupFrame>>

\* run_prompt_toolkit_console up to _open_pty_device: FileNotFoundError makes it
\* close its log files and return 1; the child is left as it is
open_pty_device ==
    /\ setup.pc = "open"
    /\ setup' = IF setup.pty_exists
                THEN [setup EXCEPT !.pc = "console", !.path = "session"]
                ELSE [setup EXCEPT !.pc = "join", !.path = "open_failed"]
    /\ UNCHANGED <<out_queue, setupFrame>>

\* the console session ends: _cleanup_console has terminated the child
console_returns ==
    /\ setup.pc = "console"
    /\ setup' = [setup EXCEPT !.child = IF @ = "running" THEN "killed" ELSE @,
                              !.pc = "join"]
    /\ UNCHANGED <<out_queue, setupFrame>>

\* thread.join() returns when the reader thread has ended; then sys.exit: 1 on
\* the timeout branch, the console's return code otherwise (1 when the open failed)
join_and_exit ==
    /\ setup.pc = "join"
    /\ setup.thread = "done"
    /\ setup' = [setup EXCEPT !.pc = "exited",
                              !.exit_code = IF setup.path = "session" THEN <<0>> ELSE <<1>>]
    /\ UNCHANGED <<out_queue, setupFrame>>

\* the child exits by itself
child_exits ==
    /\ setup.child = "running"
    /\ setup.pc # "exited"
    /\ setup' = [setup EXCEPT !.child = "exited"]
    /\ UNCHANGED <<out_queue, setupFrame>>

NextSetup ==
    \/ thread_reads_line
    \/ thread_eof
    \/ wait_found
    \/ wait_timeout
    \/ kill_child
    \/ open_pty_device
    \/ console_returns
    \/ join_and_exit
    \/ child_exits

SpecSetup == InitSetup /\ [][NextSetup]_vars

\* the launcher and the reader thread take their steps and the 10 second wait
\* ends; what the child prints and when it exits is not the launcher's to decide
SpecSetupLive ==
    /\ InitSetup
    /\ [][NextSetup]_vars
    /\ WF_vars(thread_eof)
    /\ WF_vars(wait_found)
    /\ WF_vars(wait_timeout)
    /\ WF_vars(kill_child)
    /\ WF_vars(open_pty_device)
    /\ WF_vars(join_and_exit)

\* the setup has failed: the wait timed out or the PTY could not be opened
SetupFailed == setup.path \in {"timeout", "open_failed"}

\* C23: when the PTY line does not appear within the 10 second wait, or the
\* reported PTY device does not exist, the launcher terminates with exit code 1
\* and never waits indefinitely.
C23_SetupFailureTerminatesWithOne ==
    /\ [](setup.pc = "exited" /\ SetupFailed => setup.exit_code = <<1>>)
    /\ (SetupFailed ~> setup.pc = "exited")

(***************************************************************************)
(* SpecScreen: the session with its screens.  The host terminal is resized *)
(* by the user at any time; a render pass calls get_pty_screen_fragments in*)
(* SerialConsole mode and get_monitor_screen_fragments in ControlSession   *)
(* mode (the layout shows one of the two containers); the PTY reader       *)
(* callback filters what it read and feeds it to the guest screen; the     *)
(* reader thread of the launcher queues the child's stdout lines and the   *)
(* output processor feeds them to the monitor screen.                      *)
(***************************************************************************)
\* what ioctl(TIOCGWINSZ) on stdout can return: usual sizes and one outside the
\* ranges _get_verified_terminal_size accepts
HostSizes == {[rows |-> 24, cols |-> 80], [rows |-> 30, cols |-> 100],
              [rows |-> 10, cols |-> 600]}
\* how often the host terminal is resized in a session
MaxResizes == 1

Max2(a, b) == IF a >= b THEN a ELSE b
Min2(a, b) == IF a <= b THEN a ELSE b

\* mutant: the size the ioctl returned is taken as it is
get_verified_terminal_size_unclamped(h) == h

\* _get_verified_terminal_size: rows outside 20..200 are clamped to 24..100, columns
\* outside 40..500 to 80..200; a zero size falls back to 80x24
get_verified_terminal_size(h) ==
    IF h.rows > 0 /\ h.cols > 0
    THEN [rows |-> IF h.rows < 20 \/ h.rows > 200 THEN Max2(24, Min2(h.rows, 100)) ELSE h.rows,
          cols |-> IF h.cols < 40 \/ h.cols > 500 THEN Max2(80, Min2(h.cols, 200)) ELSE h.cols]
    ELSE [rows |-> 24, cols |-> 80]

\* _set_pty_size: ioctl(TIOCSWINSZ); an OSError is ignored
set_pty_size(old, rows, cols, ok) == IF ok THEN [rows |-> rows, cols |-> cols] ELSE old

\* the request for a cursor position report, ESC [ 6 n
CPR_QUERY == <<ESC, LBRACKET, 54, 110>>

\* data.replace(b'\x1b[6n', b''): the occurrences from left to right, not overlapping
RECURSIVE replace_cpr(_, _)
replace_cpr(data, i) ==
    IF i > Len(data) THEN <<>>
    ELSE IF i + 3 <= Len(data) /\ SubSeq(data, i, i + 3) = CPR_QUERY
         THEN replace_cpr(data, i + 4)
         ELSE <<data[i]>> \o replace_cpr(data, i + 1)

\* the index after the digits that start at i
DigitRunEnd(data, i) ==
    CHOOSE j \in i..(Len(data) + 1) :
        /\ \A k \in i..(j - 1) : IsDigit(data[k])
        /\ j = Len(data) + 1 \/ ~IsDigit(data[j])

\* the index after a match of ESC \[ (\d{4,}) ; (\d{4,}) H that starts at i, 0 if none
extreme_cursor_match(data, i) ==
    IF ~(i + 1 <= Len(data) /\ data[i] = ESC /\ data[i + 1] = LBRACKET) THEN 0
    ELSE LET a == DigitRunEnd(data, i + 2)
         IN IF ~(a - (i + 2) >= 4 /\ a <= Len(data) /\ data[a] = SEMICOLON) THEN 0
            ELSE LET b == DigitRunEnd(data, a + 1)
                 IN IF b - (a + 1) >= 4 /\ b <= Len(data) /\ data[b] = FINAL_H
                    THEN b + 1 ELSE 0

\* re.sub(b'\x1b\\[(\\d{4,});(\\d{4,})H', b'', filtered)
RECURSIVE remove_extreme_cursor(_, _)
remove_extreme_cursor(data, i) ==
    IF i > Len(data) THEN <<>>
    ELSE LET e == extreme_cursor_match(data, i)
         IN IF e > 0 THEN remove_extreme_cursor(data, e)
            ELSE <<data[i]>> \o remove_extreme_cursor(data, i + 1)

\* _filter_cursor_position_queries, the filtered bytes
filter_cursor_position_queries(data) ==
    CHOOSE r \in {remove_extreme_cursor(f, 1) : f \in {replace_cpr(data, 1)}} : TRUE

\* a continuation byte of UTF-8 (0x80-0xbf)
IsContinuation(bytes, i) == i <= Len(bytes) /\ 128 <= bytes[i] /\ bytes[i] <= 191

\* bytes.decode("utf-8", "replace") from index i on, for the bytes the model
\* reads (ASCII, two-byte sequences, three-byte sequences with a lead byte
\* 0xe1-0xec, and bytes that are part of no sequence): a complete sequence is
\* its character; a lead byte with what follows of its sequence, when the
\* sequence is cut short or broken off, is one U+FFFD; every other byte of
\* 0x80 and above is one U+FFFD
RECURSIVE decode_utf8_from(_, _)
decode_utf8_from(bytes, i) ==
    IF i > Len(bytes) THEN <<>>
    ELSE LET b == bytes[i]
         IN IF b < 128 THEN <<b>> \o decode_utf8_from(bytes, i + 1)
            ELSE IF 194 <= b /\ b <= 223
                 THEN IF IsContinuation(bytes, i + 1)
                      THEN <<(b - 192) * 64 + (bytes[i + 1] - 128)>>
                           \o decode_utf8_from(bytes, i + 2)
                      ELSE <<65533>> \o decode_utf8_from(bytes, i + 1)
            ELSE IF 225 <= b /\ b <= 236
                 THEN IF IsContinuation(bytes, i + 1)
                      THEN IF IsContinuation(bytes, i + 2)
                           THEN <<(b - 224) * 4096 + (bytes[i + 1] - 128) * 64
                                  + (bytes[i + 2] - 128)>>
                                \o decode_utf8_from(bytes, i + 3)
                           ELSE <<65533>> \o decode_utf8_from(bytes, i + 2)
                      ELSE <<65533>> \o decode_utf8_from(bytes, i + 1)
            ELSE <<65533>> \o decode_utf8_from(bytes, i + 1)

decode_utf8_replace(bytes) == decode_utf8_from(bytes, 1)

\* pyte.Screen.write_process_input, which report_device_status calls with the
\* answer to a request: the screen built by _initialize_console_state is a
\* pyte.Screen, whose write_process_input does nothing
write_process_input(replies, data) == replies

\* the answer of a screen whose cursor is at the home position: ESC [ 1 ; 1 R
CPR_REPLY == <<ESC, LBRACKET, 49, SEMICOLON, 49, 82>>

\* the guest screen has the size the host terminal calls for
ScreenMatchesHost ==
    LET v == get_verified_terminal_size(host)
    IN screen_lines = v.rows /\ screen_columns = v.cols

\* the PTY output of the sessions with resizing: two plain characters
PlainStream == <<97, 98>>

InitScreen ==
    /\ ConsoleIdle
    /\ EnvIdle
    /\ monitor_sock \in BOOLEAN
    /\ mon_pc = IF monitor_sock THEN "recv" ELSE "done"
    /\ pp_state = STATE_NORMAL
    /\ pp_buffer = <<>>
    /\ screen_lines = 24
    /\ screen_columns = 80
    /\ pending = PlainStream
    /\ fed = <<>>
    /\ outs = <<>>
    /\ shape = [kind |-> "none", pre |-> <<>>, seq |-> <<>>, post |-> <<>>, row |-> 0, col |-> 0]
    /\ calls = 0
    /\ acs_state = "NORMAL"
    /\ acs_buffer = <<>>

\* the user resizes the host terminal
host_resize ==
    /\ LoopAlive
    /\ host.resizes < MaxResizes
    /\ \E h \in HostSizes :
        /\ <<h.rows, h.cols>> # <<host.rows, host.cols>>
        /\ host' = [rows |-> h.rows, cols |-> h.cols, resizes |-> host.resizes + 1]
    /\ UNCHANGED <<ioVars, conVars, tty, setup, winsize, mon_screen, emu_stale, pty_replies,
                   out_queue, mon_conn>>

\* one render pass: get_pty_screen_fragments when the PTY container is shown
\* (check, resize the guest screen, _set_pty_size), get_monitor_screen_fragments
\* when the monitor container is shown
render_pass ==
    /\ LoopAlive
    /\ LET v == get_verified_terminal_size(host)
       IN IF current_mode = MODE_SERIAL_CONSOLE
          THEN /\ IF screen_columns # v.cols \/ screen_lines # v.rows
                  THEN /\ screen_lines' = v.rows
                       /\ screen_columns' = v.cols
                       /\ \E ok \in BOOLEAN : winsize' = set_pty_size(winsize, v.rows, v.cols, ok)
                  ELSE UNCHANGED <<screen_lines, screen_columns, winsize>>
               /\ UNCHANGED mon_screen
          ELSE /\ mon_screen' = [lines |-> v.rows, columns |-> v.cols]
               /\ UNCHANGED <<screen_lines, screen_columns, winsize>>
    /\ UNCHANGED <<pp_state, pp_buffer, pending, fed, outs, shape, calls, acs_state, acs_buffer,
                   conVars, tty, setup, host, emu_stale, pty_replies, out_queue, mon_conn>>

\* _pty_reader_callback when os.read returns bytes (the next k bytes of the PTY
\* output): _process_pty_data filters them, returns if nothing is left, decodes
\* and feeds the guest screen, which answers a request it sees through
\* write_process_input
pty_reader_callback ==
    /\ LoopAlive
    /\ reader
    /\ pending # <<>>
    /\ \E k \in 1..Len(pending) :
        LET data == SubSeq(pending, 1, k)
            filtered == filter_cursor_position_queries(data)
            fed_now == outs \o decode_utf8_replace(filtered)
        IN /\ pending' = SubSeq(pending, k + 1, Len(pending))
           /\ fed' = fed \o data
           /\ outs' = fed_now
           /\ emu_stale' = (emu_stale \/ (filtered # <<>> /\ ~ScreenMatchesHost))
           /\ pty_replies' = IF Contains(fed_now, CPR_QUERY) /\ ~Contains(outs, CPR_QUERY)
                             THEN write_process_input(pty_replies, CPR_REPLY)
                             ELSE pty_replies
           /\ hist' = [CountRead(hist) EXCEPT !.fed_chunks = IF filtered = <<>> THEN @ ELSE @ + 1]
    /\ UNCHANGED <<pp_state, pp_buffer, screen_lines, screen_columns, shape, calls, acs_state,
                   acs_buffer, tty, setup, host, winsize, mon_screen, out_queue, mon_conn>>
    /\ UNCHANGED <<phase, app_result, current_mode, menu_visible, menu_result, reader,
                   proc_pc, monitor_sock, mon_pc, log_queue, log_buffer, qemu,
                   pty_fd_closes, sock_closes, return_code>>

\* _process_qemu_output_queue, one turn of its loop with lines in the queue: all
\* of them are fed to the monitor screen
process_qemu_output ==
    /\ LoopAlive
    /\ out_queue > 0
    /\ out_queue' = 0
    /\ UNCHANGED <<ioVars, conVars, tty, setup, host, winsize, mon_screen, emu_stale,
                   pty_replies, mon_conn>>

NextScreen ==
    \/ show_menu
    \/ menu_resume
    \/ menu_monitor
    \/ menu_result_processor
    \/ monitor_action_done
    \/ host_resize
    \/ render_pass
    \/ pty_reader_callback

SpecScreen == InitScreen /\ [][NextScreen]_vars

\* C24: no PTY bytes are fed to a guest screen whose size differs from the one
\* the current host terminal size calls for: after a change of the host terminal
\* the screen is resized before any bytes read after the change are fed, under
\* every interleaving of resizes, PTY read callbacks and render passes.
C24_NoFeedToStaleScreen == ~emu_stale

\* a cursor coordinate as the filter's inputs spell it
CoordOf(n) == [val |-> n, digits |-> Dec(n)]

\* a fresh PytePreprocessor bound to a screen of the given size passes
\* ESC [ r ; c H through unchanged
CursorPasses(r, c, lines, columns) ==
    LET q == CursorSeq(CoordOf(r), CoordOf(c))
    IN filter(STATE_NORMAL, <<>>, q, lines, columns).output = q

\* the step resizes the guest screen
ScreenResized == screen_lines' # screen_lines \/ screen_columns' # screen_columns

\* the size a resize to (r, c) ends in: r if it lies in 20..200, else 24 below
\* and 100 above; c if it lies in 40..500, else 80 below and 200 above
ExpectedRows(r) == IF 20 <= r /\ r <= 200 THEN r ELSE IF r < 20 THEN 24 ELSE 100
ExpectedCols(c) == IF 40 <= c /\ c <= 500 THEN c ELSE IF c < 40 THEN 80 ELSE 200

\* C25 as stated: once the resize step has run after a resize of the host
\* terminal to (r, c), the guest screen's lines/columns equal (r, c), the window
\* size last set on the PTY equals (r, c), and a PytePreprocessor bound to that
\* screen passes ESC [ r ; c H through unchanged.
C25_ResizeYieldsHostSize ==
    [][ScreenResized =>
          /\ screen_lines' = host'.rows /\ screen_columns' = host'.cols
          /\ winsize' = [rows |-> host'.rows, cols |-> host'.cols]
          /\ CursorPasses(host'.rows, host'.cols, screen_lines', screen_columns')]_vars

\* C25 amended: once the resize step has run, the guest screen has the verified
\* size (r, c clamped when outside 20..200, 40..500), the window size of the PTY is
\* that size unless the ioctl failed and left it as it was, the cursor position
\* of the verified size passes the preprocessor, and that of (r, c) itself does
\* when (r, c) was not clamped.
C25_ResizeYieldsVerifiedSize ==
    [][ScreenResized =>
          LET r == ExpectedRows(host'.rows)
              c == ExpectedCols(host'.cols)
          IN /\ screen_lines' = r /\ screen_columns' = c
             /\ winsize' = [rows |-> r, cols |-> c] \/ winsize' = winsize
             /\ CursorPasses(r, c, screen_lines', screen_columns')
             /\ (r = host'.rows /\ c = host'.cols
                   => CursorPasses(host'.rows, host'.cols, screen_lines', screen_columns'))]_vars

\* the host terminal was resized to 10x600 and the resize step has run: the
\* guest screen and the PTY are 24x200
C25_Witness ==
    /\ host.rows = 10
    /\ host.cols = 600
    /\ screen_lines = 24
    /\ screen_columns = 200
    /\ winsize = [rows |-> 24, cols |-> 200]

(***************************************************************************)
(* SpecQueries: the PTY reader callback on streams that carry requests for *)
(* a cursor position report, cut into reads in every way.                  *)
(***************************************************************************)
\* what the guest prints: a request between two characters, two requests in a
\* row, a cursor position with two four-digit coordinates, and a byte that is
\* no UTF-8
QueryStreams ==
    {<<97>> \o CPR_QUERY \o <<98>>,
     CPR_QUERY \o CPR_QUERY,
     CursorSeq(CoordOf(1000), CoordOf(1000)) \o <<97>>,
     <<255, 97>>}

InitQueries ==
    /\ ConsoleIdle
    /\ EnvIdle
    /\ monitor_sock = FALSE
    /\ mon_pc = "done"
    /\ pp_state = STATE_NORMAL
    /\ pp_buffer = <<>>
    /\ screen_lines = 24
    /\ screen_columns = 80
    /\ shape \in {[kind |-> "pty_stream", pre |-> <<>>, seq |-> s, post |-> <<>>, row |-> 0,
                   col |-> 0] : s \in QueryStreams}
    /\ pending = shape.seq
    /\ fed = <<>>
    /\ outs = <<>>
    /\ calls = 0
    /\ acs_state = "NORMAL"
    /\ acs_buffer = <<>>

NextQueries ==
    \/ pty_reader_callback

SpecQueries == InitQueries /\ [][NextQueries]_vars

\* C27: for every PTY byte stream and every division of it into reads, each
\* ESC [ 6 n request is removed before the data is fed to the guest screen (what
\* was fed holds no request), and no reply is ever written to the PTY.
C27_RequestsRemovedAndUnanswered ==
    /\ ~Contains(outs, CPR_QUERY)
    /\ pty_replies = <<>>

(***************************************************************************)
(* SpecMode: the session with everything that happens while it runs: keys, *)
(* the control menu and its actions, PTY data, control-socket data, stdout *)
(* lines of the child, resizes of the host terminal and render passes.     *)
(***************************************************************************)
InitMode ==
    /\ ConsoleIdle
    /\ EnvIdle
    /\ monitor_sock = TRUE
    /\ mon_pc = "recv"
    /\ pp_state = STATE_NORMAL
    /\ pp_buffer = <<>>
    /\ screen_lines = 24
    /\ screen_columns = 80
    /\ pending = <<97>>
    /\ fed = <<>>
    /\ outs = <<>>
    /\ shape = [kind |-> "none", pre |-> <<>>, seq |-> <<>>, post |-> <<>>, row |-> 0, col |-> 0]
    /\ calls = 0
    /\ acs_state = "NORMAL"
    /\ acs_buffer = <<>>

NextMode ==
    \/ show_menu
    \/ menu_resume
    \/ menu_monitor
    \/ menu_quit
    \/ menu_other_key
    \/ forward_input
    \/ menu_result_processor
    \/ monitor_action_done
    \/ quit_action_exit
    \/ monitor_read_data
    \/ pty_reader_callback
    \/ thread_reads_line
    \/ process_qemu_output
    \/ host_resize
    \/ render_pass

SpecMode == InitMode /\ [][NextMode]_vars

\* the step is _menu_result_processor taking the result of a menu key and
\* running its action
MenuActionProcessed ==
    /\ menu_result # "none"
    /\ menu_result' = "none"
    /\ Len(hist'.executed) = Len(hist.executed) + 1

\* the step forwards or drops a key, feeds PTY data, takes control-socket data,
\* queues or feeds a stdout line of the child, resizes the terminal or a
\* screen, or shows or hides the menu
OtherEvent ==
    \/ hist'.key # hist.key
    \/ fed' # fed
    \/ hist'.mon_reads # hist.mon_reads
    \/ out_queue' # out_queue
    \/ host' # host
    \/ ScreenResized
    \/ mon_screen' # mon_screen
    \/ menu_visible' # menu_visible

\* C28: Mode is always one of SerialConsole and ControlSession, it starts as
\* SerialConsole, it changes only in a step in which a control-menu action is
\* processed, and forwarding a key, PTY data, control-socket data, stdout lines
\* of the child, resizing and showing or hiding the menu leave it unchanged.
C28_ModeFrame ==
    /\ current_mode = MODE_SERIAL_CONSOLE
    /\ [](current_mode \in {MODE_SERIAL_CONSOLE, MODE_QEMU_MONITOR})
    /\ [][current_mode' # current_mode => MenuActionProcessed]_vars
    /\ [][OtherEvent => current_mode' = current_mode]_vars

\* the monitor action has switched the mode, and a key was forwarded in
\* ControlSession mode after PTY data, control-socket data and a resize with its
\* render pass
C28_Witness ==
    /\ current_mode = MODE_QEMU_MONITOR
    /\ hist.executed # <<>>
    /\ hist.key.data # <<>>
    /\ hist.key.mode = MODE_QEMU_MONITOR
    /\ fed # <<>>
    /\ hist.mon_reads > 0
    /\ host.resizes > 0
    /\ mon_screen.lines = host.rows
    /\ out_queue = 0

(***************************************************************************)
(* SpecSocket: the session with or without a monitor socket, whose         *)
(* connection can close or fail at any time, together with keys, the menu  *)
(* and its actions, PTY data, the exit of the child and the end of the     *)
(* session.                                                                *)
(***************************************************************************)
NextSocket ==
    \/ show_menu
    \/ menu_resume
    \/ menu_monitor
    \/ menu_quit
    \/ menu_other_key
    \/ forward_input
    \/ menu_result_processor
    \/ monitor_action_done
    \/ quit_action_exit
    \/ monitor_read_data
    \/ monitor_read_closed
    \/ monitor_read_error
    \/ log_merger
    \/ pty_reader_callback
    \/ qemu_exits
    \/ manage_session_exit

SpecSocket == InitScreen /\ [][NextSocket]_vars

\* the control socket was never connected, or its read loop has ended on a
\* closed connection or an error
SocketUnavailable == ~monitor_sock \/ mon_pc = "done"

\* the step in which the read loop of the control socket ends
SocketLost == mon_pc = "recv" /\ mon_pc' = "done"

\* C22: a control socket that cannot be connected at the start, or whose
\* connection closes or fails later, does not end the session and does not
\* touch the exit code (it stays the child's); PTY output can still be fed to
\* the guest screen, a key pressed in SerialConsole mode still reaches the PTY,
\* and nothing is written to (or closed on) a socket that was never connected.
C22_SocketUnavailabilityNotFatal ==
    /\ [][SocketLost => UNCHANGED <<phase, app_result, return_code, qemu, reader>>]_vars
    /\ [](return_code # <<>> => return_code = <<session_return_code(0, qemu.returncode)>>)
    /\ [](SocketUnavailable /\ LoopAlive /\ reader /\ pending # <<>>
            => ENABLED pty_reader_callback)
    /\ [](SocketUnavailable /\ phase = "running" /\ ~menu_visible => ENABLED forward_input)
    /\ [][(SocketUnavailable /\ OtherKeyPressed /\ ~menu_visible
             /\ current_mode = MODE_SERIAL_CONSOLE /\ ~hist'.key.failed)
            => hist'.key.pty = encode_utf8_replace(hist'.key.data)]_vars
    /\ [](~monitor_sock =>
            /\ hist.key.sock = <<>>
            /\ ~qemu.got_quit
            /\ proc_pc \notin {"monitor_sleep", "quit_sleep"}
            /\ sock_closes = 0)

\* the read loop of the control socket has failed, the session runs, PTY output
\* was fed and a key has reached the PTY
C22_Witness ==
    /\ hist.mon_crash
    /\ mon_pc = "done"
    /\ phase = "running"
    /\ fed # <<>>
    /\ hist.key.pty # <<>>
    /\ hist.key.mode = MODE_SERIAL_CONSOLE

(***************************************************************************)
(* SpecAcsEsc: one ACSTranslator, started in either mode, fed an escape    *)
(* sequence other than the two mode switches, between plain bytes, in      *)
(* chunks.                                                                 *)
(***************************************************************************)
\* ESC [ 3 1 m, ESC [ 0 m, ESC [ H, ESC ( X, ESC ( A and ESC c
OtherEscapeSeqs ==
    {<<ESC, LBRACKET, 51, 49, 109>>, <<ESC, LBRACKET, 48, 109>>, <<ESC, LBRACKET, FINAL_H>>,
     <<ESC, 40, 88>>, <<ESC, 40, 65>>, <<ESC, 99>>}

AcsEscShapes ==
    {[kind |-> k, pre |-> a, seq |-> s, post |-> b, row |-> 0, col |-> 0] :
        k \in {"acs_esc", "acs_graphics"}, a \in {<<>>, <<113>>, <<ESC>>},
        s \in OtherEscapeSeqs, b \in {<<>>, <<65>>, <<113>>}}

InitAcsEsc ==
    /\ shape \in AcsEscShapes
    /\ acs_state = StartMode
    /\ acs_buffer = <<>>
    /\ pending = shape.pre \o shape.seq \o shape.post
    /\ fed = <<>>
    /\ outs = <<>>
    /\ calls = 0
    /\ pp_state = STATE_NORMAL
    /\ pp_buffer = <<>>
    /\ screen_lines = 24
    /\ screen_columns = 80
    /\ ConsoleIdle
    /\ EnvIdle
    /\ monitor_sock = FALSE
    /\ mon_pc = "done"

SpecAcsEsc == InitAcsEsc /\ [][NextAcs]_vars

\* the bytes of s with every key of the ACS table replaced by the UTF-8
\* encoding of its character
RECURSIVE GraphicsImage(_)
GraphicsImage(s) ==
    IF s = <<>> THEN <<>>
    ELSE (IF Head(s) \in DOMAIN acs_map THEN utf8_encode(acs_map[Head(s)]) ELSE <<Head(s)>>)
         \o GraphicsImage(Tail(s))

\* what a translator that stays in the given mode makes of s
ModeImage(mode, s) == IF mode = ACS_MODE THEN GraphicsImage(s) ELSE s

\* C31 (as stated): once an input with an escape sequence other than ESC ( 0
\* and ESC ( B has been passed to translate, in whichever mode the translator
\* is, the outputs are what the bytes before it gave, the sequence byte for byte,
\* and what the bytes after it gave.
C31_OtherEscapesForwardedUnchanged ==
    pending = <<>> =>
        outs = ModeImage(StartMode, shape.pre) \o shape.seq \o ModeImage(StartMode, shape.post)

\* C31 (amended): a translator in Normal mode forwards the sequence byte for
\* byte; a translator in graphics mode forwards it with every byte that is a key
\* of the ACS table (the m of ESC [ 3 1 m, the c of ESC c) replaced by the
\* key's character, the other bytes unchanged.  At every call boundary the
\* outputs and the held-back ESC or ESC ( are this image of the bytes fed so
\* far, and the mode is the one the translator started in.
C31_OtherEscapesForwardedPerMode ==
    /\ outs \o acs_buffer = ModeImage(StartMode, fed)
    /\ acs_state = StartMode
    /\ pending = <<>> =>
        /\ acs_buffer = HeldTail(fed)
        /\ StartMode = NORMAL => Contains(outs \o acs_buffer, shape.seq)
        /\ (StartMode = ACS_MODE /\ \A i \in 1..Len(shape.seq) : shape.seq[i] \notin DOMAIN acs_map)
               => Contains(outs \o acs_buffer, shape.seq)

\* a translator in graphics mode got ESC [ 3 1 m in two calls: the m came out
\* as the three bytes of U+2514
C31_Witness ==
    /\ shape.kind = "acs_graphics"
    /\ shape.pre = <<>>
    /\ shape.seq = <<ESC, LBRACKET, 51, 49, 109>>
    /\ shape.post = <<>>
    /\ pending = <<>>
    /\ calls = 2
    /\ outs = <<ESC, LBRACKET, 51, 49>> \o utf8_encode(acs_map[109])
    /\ Len(outs) = 7

(***************************************************************************)
(* SpecFragments: _process_line_to_fragments on one row of a screen.  A    *)
(* row is the display line (the glyphs, possibly fewer than the width) and *)
(* the buffer line (one cell of attributes per column).                    *)
(***************************************************************************)
\* the widest row of the runs
MaxWidth == 3

\* the attributes of a cell that _get_char_style reads, and strikethrough,
\* which it does not read
Cells ==
    [fg : {"default", "red"}, bg : {"default"}, bold : {FALSE}, reverse : BOOLEAN,
     strikethrough : BOOLEAN]

\* the glyphs of the runs: a letter and U+2500
Glyphs == {97, 9472}

\* the parts _get_char_style joins with " " (no part contains a space, so the
\* sequence of parts stands for the joined string); the cells of the runs have
\* named colours and neither italics nor underscore
get_char_style(char) ==
    LET swap == char.reverse /\ char.fg = "default" /\ char.bg = "default"
        fg_color == IF swap THEN "black" ELSE char.fg
        bg_color == IF swap THEN "#bbbbbb" ELSE char.bg
    IN (IF fg_color # "default" THEN <<"fg:ansi" \o fg_color>> ELSE <<>>)
       \o (IF bg_color = "#bbbbbb" THEN <<"bg:" \o bg_color>>
           ELSE IF bg_color # "default" THEN <<"bg:ansi" \o bg_color>> ELSE <<>>)
       \o (IF char.bold THEN <<"bold">> ELSE <<>>)
       \o (IF char.reverse THEN <<"reverse">> ELSE <<>>)

\* current_style = None, before the first cell
None == <<"None">>

\* mutant: every cell starts a new group
style_changed_always(style_str, current_style) == TRUE
\* style_str != current_style
style_changed(style_str, current_style) == style_str # current_style

\* the loop `for x in range(width)` from column x (1-based) on; s is
\* [line_fragments, current_style, current_text_parts]
RECURSIVE fragments_loop(_, _, _, _, _)
fragments_loop(s, display_line, buffer_line, width, x) ==
    IF x > width THEN s
    ELSE LET char_data == IF x <= Len(display_line) THEN display_line[x] ELSE 32
             style_str == get_char_style(buffer_line[x])
         IN IF style_changed(style_str, s.current_style)
            THEN fragments_loop(
                   [line_fragments |->
                        IF s.current_style # None
                        THEN Append(s.line_fragments,
                                    [style |-> s.current_style, text |-> s.current_text_parts])
                        ELSE s.line_fragments,
                    current_style |-> style_str,
                    current_text_parts |-> <<char_data>>],
                   display_line, buffer_line, width, x + 1)
            ELSE fragments_loop([s EXCEPT !.current_text_parts = Append(@, char_data)],
                                display_line, buffer_line, width, x + 1)

\* _process_line_to_fragments(y, pyte_screen) for the row with this display
\* line and buffer line on a screen of this width
process_line_to_fragments(display_line, buffer_line, width) ==
    LET s == fragments_loop([line_fragments |-> <<>>, current_style |-> None,
                             current_text_parts |-> <<>>],
                            display_line, buffer_line, width, 1)
    IN IF s.current_style # None
       THEN Append(s.line_fragments, [style |-> s.current_style, text |-> s.current_text_parts])
       ELSE s.line_fragments

\* the rows of the runs
RowShapes ==
    UNION {{[kind |-> "row", pre |-> d, seq |-> b, post |-> <<>>, row |-> 0, col |-> w] :
               d \in SeqsUpTo(Glyphs, w), b \in [1..w -> Cells]} : w \in 0..MaxWidth}

InitFragments ==
    /\ shape \in RowShapes
    /\ pending = shape.pre
    /\ fed = <<>>
    /\ outs = <<>>
    /\ calls = 0
    /\ acs_state = NORMAL
    /\ acs_buffer = <<>>
    /\ pp_state = STATE_NORMAL
    /\ pp_buffer = <<>>
    /\ screen_lines = 24
    /\ screen_columns = shape.col
    /\ ConsoleIdle
    /\ EnvIdle
    /\ monitor_sock = FALSE
    /\ mon_pc = "done"

\* one call _process_line_to_fragments(y, pyte_screen): outs is the list returned
ProcessLineCall ==
    /\ calls = 0
    /\ outs' = process_line_to_fragments(shape.pre, shape.seq, screen_columns)
    /\ fed' = shape.pre
    /\ pending' = <<>>
    /\ calls' = 1
    /\ UNCHANGED <<pp_state, pp_buffer, screen_lines, screen_columns, shape, acs_state,
                   acs_buffer, conVars, envVars>>

NextFragments == ProcessLineCall

SpecFragments == InitFragments /\ [][NextFragments]_vars

\* the texts of the fragments, concatenated
RECURSIVE FragmentTexts(_)
FragmentTexts(frs) == IF frs = <<>> THEN <<>> ELSE Head(frs).text \o FragmentTexts(Tail(frs))

\* the display line padded with spaces to the width
PaddedDisplay(display_line, width) ==
    [x \in 1..width |-> IF x <= Len(display_line) THEN display_line[x] ELSE 32]

\* the number of cells the fragments before the k-th cover
RECURSIVE FragmentStart(_, _)
FragmentStart(frs, k) == IF k = 1 THEN 0 ELSE FragmentStart(frs, k - 1) + Len(frs[k - 1].text)

\* C32: the fragments _process_line_to_fragments returns for a row: their texts
\* concatenated are the row's `columns` glyphs in order, a display line shorter
\* than the width padded with spaces; each fragment's style is the style of
\* every cell it covers; no two adjacent fragments have the same style.
C32_RunLengthFragments ==
    calls = 1 =>
        /\ FragmentTexts(outs) = PaddedDisplay(shape.pre, screen_columns)
        /\ Len(FragmentTexts(outs)) = screen_columns
        /\ \A k \in 1..Len(outs) :
             /\ outs[k].text # <<>>
             /\ \A j \in 1..Len(outs[k].text) :
                  outs[k].style = get_char_style(shape.seq[FragmentStart(outs, k) + j])
        /\ \A k \in 1..(Len(outs) - 1) : outs[k].style # outs[k + 1].style

\* a row of three cells, the first two red and differing in strikethrough
\* only, the third plain, with a display line of one glyph: two fragments, the
\* first of two cells, the second a padding space
C32_Witness ==
    /\ calls = 1
    /\ screen_columns = 3
    /\ shape.pre = <<9472>>
    /\ shape.seq[1].strikethrough # shape.seq[2].strikethrough
    /\ Len(outs) = 2
    /\ outs[1] = [style |-> <<"fg:ansired">>, text |-> <<9472, 32>>]
    /\ outs[2] = [style |-> <<>>, text |-> <<32>>]

(***************************************************************************)
(* SpecConnect: run_prompt_toolkit_console from its call of                *)
(* _connect_to_monitor on.  QEMU creates the monitor socket at some time   *)
(* of its own start-up: when the console connects, the path does not exist *)
(* yet, exists without a listener, or is listening.                        *)
(***************************************************************************)
InitConnect ==
    /\ IoIdle
    /\ SessionIdle
    /\ phase = "connecting"
    /\ reader = FALSE
    /\ monitor_sock = FALSE
    /\ mon_pc = "done"
    /\ TtyIdle
    /\ SetupIdle
    /\ ScreenIdle
    /\ mon_conn \in {[socket |-> s, attempts |-> 0, pc |-> "start"] :
                       s \in {"absent", "refusing", "listening"}}

\* QEMU binds the monitor socket and listens on it
socket_created ==
    /\ mon_conn.socket # "listening"
    /\ mon_conn' = [mon_conn EXCEPT !.socket = "listening"]
    /\ UNCHANGED <<ioVars, conVars, tty, setup, host, winsize, mon_screen, emu_stale,
                   pty_replies, out_queue>>

\* _connect_to_monitor: one sock_connect; FileNotFoundError and
\* ConnectionRefusedError give the warning and None.  Then the session starts
\* (_setup_console_app, _create_async_tasks, loop.add_reader): the monitor read
\* task runs only with a socket
connect_to_monitor ==
    /\ phase = "connecting"
    /\ mon_conn.pc = "start"
    /\ mon_conn' = [mon_conn EXCEPT !.attempts = @ + 1, !.pc = "returned"]
    /\ monitor_sock' = (mon_conn.socket = "listening")
    /\ mon_pc' = IF mon_conn.socket = "listening" THEN "recv" ELSE "done"
    /\ phase' = "running"
    /\ reader' = TRUE
    /\ UNCHANGED <<ioVars, tty, setup, host, winsize, mon_screen, emu_stale, pty_replies,
                   out_queue>>
    /\ UNCHANGED <<app_result, current_mode, menu_visible, menu_result, proc_pc, log_queue,
                   log_buffer, qemu, pty_fd_closes, sock_closes, return_code, hist>>

NextConnect ==
    \/ socket_created
    \/ connect_to_monitor
    \/ show_menu
    \/ menu_resume
    \/ menu_monitor
    \/ menu_result_processor
    \/ monitor_action_done
    \/ forward_input
    \/ monitor_read_data
    \/ monitor_read_closed

SpecConnect == InitConnect /\ [][NextConnect]_vars

\* asyncio.run runs the coroutine run_prompt_toolkit_console, so its await of
\* _connect_to_monitor is carried out
SpecConnectLive == SpecConnect /\ WF_vars(connect_to_monitor)

\* C33: connecting to the control socket ends after a bounded number of
\* attempts; when the first attempt has failed and the socket has become
\* available after it, the session obtains a connection.
C33_ConnectRetriedUntilAvailable ==
    /\ (mon_conn.pc = "start") ~> (mon_conn.pc = "returned")
    /\ (mon_conn.attempts = 1 /\ ~monitor_sock /\ mon_conn.socket = "listening") ~> monitor_sock

(***************************************************************************)
(* Claims about PTY delivery and keystroke routing (specifications Spec    *)
(* and SpecKeys).                                                          *)
(***************************************************************************)
\* C34: whenever the session is running, the menu is hidden, no menu result is
\* pending and no Quit is being carried out, the PTY read callback is registered
\* with the event loop, in ControlSession mode as well as in SerialConsole mode.
C34_ReaderRegisteredOutsideMenu ==
    (/\ phase = "running"
     /\ ~menu_visible
     /\ menu_result = "none"
     /\ proc_pc \in {"sleep", "monitor_sleep"}) => reader

\* C35: a key pressed after EnterControl was pressed in the menu is not written
\* to the guest PTY, and a key pressed after Resume was pressed in the menu while
\* in ControlSession mode is not written to the control socket, whether or not
\* the _menu_result_processor task has run in between (the selection is still
\* in menu_state.result when it has not).
C35_KeysFollowMenuSelection ==
    [][/\ (menu_result = "monitor" /\ ~menu_visible /\ hist'.key # hist.key)
            => hist'.key.pty = <<>>
       /\ (menu_result = "resume" /\ ~menu_visible /\ current_mode = MODE_QEMU_MONITOR
           /\ hist'.key # hist.key)
            => hist'.key.sock = <<>>]_vars

(***************************************************************************)
(* Further claims about PytePreprocessor (specification SpecFilter).       *)
(***************************************************************************)
\* the byte ranges of a CSI sequence as the standard has them: intermediate
\* bytes 0x20-0x2f, parameter bytes 0x30-0x3f
IntermediateRange(byte) == 32 <= byte /\ byte <= 47
ParameterRange(byte) == 48 <= byte /\ byte <= 63

\* C36: at every filter call boundary the buffer is empty if and only if the
\* state is Normal; in state EscSeen the buffer is the single byte ESC; in states
\* CsiStarted and CsiIntermediate the buffer starts with ESC '[' and every later
\* byte is a parameter or an intermediate byte, with at least one intermediate
\* byte exactly when the state is CsiIntermediate.
C36_StateBufferConsistent ==
    /\ pp_state \in {STATE_NORMAL, STATE_ESC_SEEN, STATE_CSI_STARTED, STATE_CSI_INTERMEDIATE}
    /\ (pp_buffer = <<>>) <=> (pp_state = STATE_NORMAL)
    /\ pp_state = STATE_ESC_SEEN => pp_buffer = <<ESC>>
    /\ pp_state \in {STATE_CSI_STARTED, STATE_CSI_INTERMEDIATE} =>
         /\ Len(pp_buffer) >= 2
         /\ SubSeq(pp_buffer, 1, 2) = <<ESC, LBRACKET>>
         /\ \A i \in 3..Len(pp_buffer) :
              IntermediateRange(pp_buffer[i]) \/ ParameterRange(pp_buffer[i])
         /\ (\E i \in 3..Len(pp_buffer) : IntermediateRange(pp_buffer[i]))
              <=> (pp_state = STATE_CSI_INTERMEDIATE)

\* after two calls the preprocessor tracks ESC [ ! 1, a parameter byte after an
\* intermediate byte, in state CsiIntermediate
C36_Witness ==
    /\ calls = 2
    /\ pp_state = STATE_CSI_INTERMEDIATE
    /\ pp_buffer = <<ESC, LBRACKET, 33, 49>>
    /\ fed = pp_buffer

\* the number of leading bytes two byte strings have in common
CommonPrefix(a, b) ==
    CHOOSE j \in 0..Min2(Len(a), Len(b)) :
        /\ \A m \in 1..j : a[m] = b[m]
        /\ j = Min2(Len(a), Len(b)) \/ a[j + 1] # b[j + 1]

\* seg is ESC '[', bytes of the parameter and intermediate ranges, and one more byte
CsiBody(seg) ==
    /\ Len(seg) >= 3
    /\ SubSeq(seg, 1, 2) = <<ESC, LBRACKET>>
    /\ \A m \in 3..(Len(seg) - 1) : IntermediateRange(seg[m]) \/ ParameterRange(seg[m])

\* a whole CSI sequence: it ends with a final byte (0x40-0x7e)
WholeCsi(seg) == CsiBody(seg) /\ 64 <= seg[Len(seg)] /\ seg[Len(seg)] <= 126

\* what filter deletes: a whole CSI sequence with an intermediate byte or with
\* the final byte H; an unfinished CSI sequence with an intermediate byte
\* together with the byte outside 0x20-0x7e that follows it; the first
\* MAX_BUFFER_SIZE + 1 bytes of a CSI sequence that has no final byte by then
Deleted(seg) ==
    /\ CsiBody(seg)
    /\ LET last == seg[Len(seg)]
           interm == \E m \in 3..(Len(seg) - 1) : IntermediateRange(seg[m])
       IN \/ WholeCsi(seg) /\ (interm \/ last = FINAL_H)
          \/ interm /\ (last < 32 \/ last > 126)
          \/ Len(seg) = MAX_BUFFER_SIZE + 1 /\ (IntermediateRange(last) \/ ParameterRange(last))

\* out is inp with zero or more segments deleted, each a whole CSI sequence
\* (whole = TRUE) or one of the segments filter deletes (whole = FALSE)
RECURSIVE Conserved(_, _, _)
Conserved(inp, out, whole) ==
    IF inp = out THEN TRUE
    ELSE \E i \in 1..Min2(CommonPrefix(inp, out) + 1, Len(inp)) :
           \E k \in 3..(Len(inp) - i + 1) :
             /\ IF whole THEN WholeCsi(SubSeq(inp, i, i + k - 1))
                ELSE Deleted(SubSeq(inp, i, i + k - 1))
             /\ Conserved(SubSeq(inp, i + k, Len(inp)), SubSeq(out, i, Len(out)), whole)

\* C37 (as stated): after any sequence of filter calls the outputs followed by
\* the buffer are the input so far with zero or more whole escape sequences,
\* each starting at an ESC byte, deleted: nothing is inserted or reordered, and no
\* byte outside such a sequence is deleted.
C37_OnlyWholeSequencesDeleted ==
    \A inp \in {fed} : Conserved(inp, outs \o pp_buffer, TRUE)

\* C37 (amended): the outputs followed by the buffer are the input so far with
\* zero or more segments deleted, each starting at ESC '[' and being a whole CSI
\* sequence with an intermediate byte, a whole cursor-position sequence, an
\* unfinished CSI sequence with an intermediate byte together with the byte
\* outside 0x20-0x7e that interrupts it, or the first 65 bytes of a CSI sequence
\* that is still unfinished then; nothing is inserted or reordered and no other
\* byte is deleted.
C37_OnlyTrackedSegmentsDeleted ==
    \A inp \in {fed} : Conserved(inp, outs \o pp_buffer, FALSE)

\* ESC [ ! and a line feed went through two calls: all four bytes are gone,
\* the line feed with them
C37_Witness ==
    /\ calls = 2
    /\ fed = <<ESC, LBRACKET, 33, 10>>
    /\ pending = <<>>
    /\ outs = <<>>
    /\ pp_buffer = <<>>

(***************************************************************************)
(* SpecFilterPrefixed: one PytePreprocessor fed, in chunks, a complete CSI *)
(* sequence with an intermediate byte that follows an unfinished escape    *)
(* prefix (or plain text, or nothing).                                     *)
(***************************************************************************)
\* nothing, a letter, a stray ESC, ESC '[', ESC '[' with a parameter byte,
\* ESC '[' with an intermediate byte
UnfinishedPrefixes ==
    {<<>>, <<97>>, <<ESC>>, <<ESC, LBRACKET>>, <<ESC, LBRACKET, 49>>, <<ESC, LBRACKET, 33>>}

PrefixedShapes ==
    {[kind |-> "csi_prefixed", pre |-> a, seq |-> q, post |-> b, row |-> 0, col |-> 0] :
        a \in UnfinishedPrefixes, q \in CsiIntermediateSeqs, b \in PlainAfter}

InitFilterPrefixed ==
    /\ pp_state = STATE_NORMAL
    /\ pp_buffer = <<>>
    /\ shape \in PrefixedShapes
    /\ screen_lines = 24
    /\ screen_columns = 80
    /\ pending = shape.pre \o shape.seq \o shape.post
    /\ fed = <<>>
    /\ outs = <<>>
    /\ calls = 0
    /\ acs_state = "NORMAL"
    /\ acs_buffer = <<>>
    /\ ConsoleIdle
    /\ EnvIdle
    /\ monitor_sock = FALSE
    /\ mon_pc = "done"

SpecFilterPrefixed == InitFilterPrefixed /\ [][NextFilter]_vars

\* C38: once a complete CSI sequence with an intermediate byte has gone through
\* the preprocessor, whatever came before it (a stray ESC, an unfinished ESC '['
\* also), no byte of it is in the output: the output is bytes of what came before
\* it, in order, and the plain bytes after it; the state is Normal again.
C38_CsiIntermediateRemovedInContext ==
    (shape.kind = "csi_prefixed" /\ pending = <<>>) =>
        /\ \E n \in 0..Len(shape.pre) : outs = SubSeq(shape.pre, 1, n) \o shape.post
        /\ pp_state = STATE_NORMAL
        /\ pp_buffer = <<>>

(***************************************************************************)
(* SpecAcsNested: one ACSTranslator, started in either mode, fed in chunks *)
(* a mode-switch sequence between a piece of one (nothing, ESC, ESC '(')   *)
(* and the bytes that complete one ('(', '0', 'B').                        *)
(***************************************************************************)
AcsNestedShapes ==
    {[kind |-> k, pre |-> a, seq |-> s, post |-> b, row |-> 0, col |-> 0] :
        k \in {"acs_nested", "acs_graphics"},
        a \in {<<>>, <<ESC>>, <<ESC, 40>>},
        s \in {ACS_ENTER_SEQ, ACS_EXIT_SEQ},
        b \in {<<>>, <<48>>, <<66>>, <<40, 48>>, <<40, 66>>, <<113>>}}

InitAcsNested ==
    /\ shape \in AcsNestedShapes
    /\ acs_state = StartMode
    /\ acs_buffer = <<>>
    /\ pending = shape.pre \o shape.seq \o shape.post
    /\ fed = <<>>
    /\ outs = <<>>
    /\ calls = 0
    /\ pp_state = STATE_NORMAL
    /\ pp_buffer = <<>>
    /\ screen_lines = 24
    /\ screen_columns = 80
    /\ ConsoleIdle
    /\ EnvIdle
    /\ monitor_sock = FALSE
    /\ mon_pc = "done"

SpecAcsNested == InitAcsNested /\ [][NextAcs]_vars

\* C39: for every input and every chunking, the concatenated output of
\* translate contains neither ESC ( 0 nor ESC ( B.
C39_OutputFreeOfModeSwitches ==
    /\ ~Contains(outs, ACS_ENTER_SEQ)
    /\ ~Contains(outs, ACS_EXIT_SEQ)

(***************************************************************************)
(* SpecReads: the PTY reader callback on byte streams with characters of   *)
(* more than one byte, delivered in reads of any lengths.                  *)
(***************************************************************************)
\* "a" U+00E9 "b"; U+2500 "a"; U+00E9 U+2500; "a" U+00E9 "b" U+2500 "c"; three
\* letters; a byte that is no UTF-8 and a letter
Utf8Streams ==
    {<<97>> \o utf8_encode(233) \o <<98>>,
     utf8_encode(9472) \o <<97>>,
     utf8_encode(233) \o utf8_encode(9472),
     <<97>> \o utf8_encode(233) \o <<98>> \o utf8_encode(9472) \o <<99>>,
     <<97, 98, 99>>,
     <<255, 97>>}

InitReads ==
    /\ ConsoleIdle
    /\ EnvIdle
    /\ monitor_sock = FALSE
    /\ mon_pc = "done"
    /\ pp_state = STATE_NORMAL
    /\ pp_buffer = <<>>
    /\ screen_lines = 24
    /\ screen_columns = 80
    /\ shape \in {[kind |-> "pty_stream", pre |-> <<>>, seq |-> s, post |-> <<>>, row |-> 0,
                   col |-> 0] : s \in Utf8Streams}
    /\ pending = shape.seq
    /\ fed = <<>>
    /\ outs = <<>>
    /\ calls = 0
    /\ acs_state = "NORMAL"
    /\ acs_buffer = <<>>

NextReads ==
    \/ pty_reader_callback

SpecReads == InitReads /\ [][NextReads]_vars

\* what _process_pty_data feeds when the bytes arrive in one read
FedInOneRead(stream) == decode_utf8_replace(filter_cursor_position_queries(stream))

\* C40: for every PTY byte stream and every division of it into reads, the
\* characters fed to the guest emulator are those fed when the stream arrives in
\* one read; a character whose bytes arrive in two reads is fed as that character.
C40_FedTextIndependentOfReads ==
    pending = <<>> => outs = FedInOneRead(fed)

====
